---- MODULE Spec2Model ----
(***************************************************************************)
(* Molecule -> topology pipeline of the alexandria MyMol class             *)
(* (src/unnamed/part_000): GenerateTopology and its stages, AddShells,     *)
(* detect_rings and the linearity test of MakeSpecialInteractions.         *)
(*                                                                         *)
(* Atom indices are 0-based as in the code; an array of n elements is a    *)
(* function on 0..n-1.  A parameter list t_params is the sequence of its   *)
(* first nr entries.  Coefficients are integers.                           *)
(***************************************************************************)
EXTENDS Integers, Sequences, FiniteSets, TLC

VARIABLES
    pc,       \* position of the running operation
    pd,       \* the force field (gmx_poldata_t), read only
    mol,      \* the molecule's input data (MolProp part of MyMol)
    args,     \* arguments of GenerateTopology
    pass,     \* number of GenerateTopology calls started on this object
    bts,      \* MyMol::bts
    nexcl_,   \* MyMol::nexcl_
    atoms,    \* topology_->atoms (a function on 0..nr-1)
    x_,       \* MyMol::x_, the coordinates (a function on 0..nr-1)
    gvt,      \* MyMol::gvt, the linear and planar motifs registered so far
    plist_,   \* MyMol::plist_
    excls_,   \* MyMol::excls_
    mtop_,    \* MyMol::mtop_ (null, or the assembled topology in top)
    ltop_,    \* MyMol::ltop_ ("NULL" or "set")
    imm,      \* the status GenerateTopology returns
    ran,      \* stages executed by the running call, in order
    hist,     \* what earlier operations left behind (for comparisons)
    ring,     \* state of detect_rings: bonds, natom, bRing
    lin,      \* state of the linearity classification
    call,     \* one term in get_force_constants: the parameter string and the slots
    kernel,   \* the threaded nonbonded kernel: shared counter, mutex, the threads
    storage,  \* a SelectionOptionStorage and the selections of its collection
    cube      \* MyMol::GenerateCube: the arguments, gr_ and grref

vars == <<pc, pd, mol, args, pass, bts, nexcl_, atoms, x_, gvt, plist_, excls_,
          mtop_, ltop_, imm, ran, hist, ring, lin, call, kernel, storage, cube>>

----------------------------------------------------------------------------
(* Bounds *)

MaxAtoms == 4
MaxPasses == 2
MaxShellPasses == 2
MaxRing == 9
MaxGraphAtoms == 4
MaxCoord == 1
MaxPrints == 1

(* Program constants *)

NOTSET == -12345
\* NOTSET where it stands in a slot that holds a functional type
FTypeNotSet == "NOTSET"
MAXFORCEPARAM == 12
th_toler == 5
ph_toler == 5

----------------------------------------------------------------------------
(* Generic helpers *)

Min(a, b) == IF a < b THEN a ELSE b
Max(a, b) == IF a < b THEN b ELSE a

Range(s) == {s[i] : i \in DOMAIN s}

RECURSIVE SortedSeq(_)
SortedSeq(S) ==
    IF S = {} THEN <<>>
    ELSE LET m == CHOOSE x \in S : \A y \in S : x <= y
         IN <<m>> \o SortedSeq(S \ {m})

\* Sort key of an atom tuple: bonds and pairs by (i,j), angles by the central
\* atom first, dihedrals by the two central atoms first.
TupleKey(t) ==
    CASE Len(t) = 2 -> t[1] * 16 + t[2]
      [] Len(t) = 3 -> (t[2] * 16 + t[1]) * 16 + t[3]
      [] Len(t) = 4 -> ((t[2] * 16 + t[3]) * 16 + t[1]) * 16 + t[4]

RECURSIVE SortTuples(_)
SortTuples(S) ==
    IF S = {} THEN <<>>
    ELSE LET m == CHOOSE x \in S : \A y \in S : TupleKey(x) <= TupleKey(y)
         IN <<m>> \o SortTuples(S \ {m})

----------------------------------------------------------------------------
(* Functional types (a subset of the F_ enumeration, in its order) *)

FTypeOrder == <<"F_BONDS", "F_MORSE", "F_CONNBONDS", "F_ANGLES", "F_LINEAR_ANGLES",
                "F_UREY_BRADLEY", "F_PDIHS", "F_FOURDIHS", "F_IDIHS",
                "F_LJ14", "F_LJ", "F_POLARIZATION">>

FTypes == Range(FTypeOrder)

\* Number of atoms of an interaction of the type
NRAL(ft) ==
    CASE ft \in {"F_BONDS", "F_MORSE", "F_CONNBONDS", "F_LJ14", "F_LJ",
                 "F_POLARIZATION"} -> 2
      [] ft \in {"F_ANGLES", "F_LINEAR_ANGLES", "F_UREY_BRADLEY"} -> 3
      [] ft \in {"F_PDIHS", "F_FOURDIHS", "F_IDIHS"} -> 4

\* Number of state-A coefficients of the type
NRFPA(ft) ==
    CASE ft \in {"F_BONDS", "F_ANGLES", "F_LINEAR_ANGLES", "F_IDIHS",
                 "F_LJ14", "F_LJ"} -> 2
      [] ft \in {"F_MORSE", "F_PDIHS"} -> 3
      [] ft \in {"F_UREY_BRADLEY", "F_FOURDIHS"} -> 4
      [] ft = "F_POLARIZATION" -> 1
      [] ft = "F_CONNBONDS" -> 0

\* Types that count as chemical bonds when the neighbour table is built
ChemBondTypes == {"F_BONDS", "F_MORSE", "F_CONNBONDS"}

Coefs == 0 .. (MAXFORCEPARAM - 1)

ZeroC == [l \in Coefs |-> 0]
NotsetC == [l \in Coefs |-> NOTSET]

\* A t_param: the atom tuple and the coefficient array
Param(a, c) == [a |-> a, c |-> c]

\* init_plist: every list empty
init_plist == [ft \in FTypes |-> <<>>]

\* add_param_to_list: the entry is stored behind the list's last entry
add_param_to_list(list, b) == Append(list, b)

----------------------------------------------------------------------------
(* Strings of the force field file: sequences of characters *)

SP == " "

DigitValue(ch) ==
    CASE ch = "0" -> 0 [] ch = "1" -> 1 [] ch = "2" -> 2 [] ch = "3" -> 3
      [] ch = "4" -> 4 [] ch = "5" -> 5 [] ch = "6" -> 6 [] ch = "7" -> 7
      [] ch = "8" -> 8 [] ch = "9" -> 9

\* split(s, delim): the pieces between the delimiters; two delimiters in a
\* row give an empty piece
RECURSIVE SplitFrom(_, _, _)
SplitFrom(s, delim, cur) ==
    IF s = <<>> THEN (IF cur = <<>> THEN <<>> ELSE <<cur>>)
    ELSE IF Head(s) = delim THEN <<cur>> \o SplitFrom(Tail(s), delim, <<>>)
    ELSE SplitFrom(Tail(s), delim, Append(cur, Head(s)))

split(s, delim) == SplitFrom(s, delim, <<>>)

\* atof on a run of digits
RECURSIVE AtofFrom(_, _)
AtofFrom(tok, acc) ==
    IF tok = <<>> THEN acc
    ELSE AtofFrom(Tail(tok), acc * 10 + DigitValue(Head(tok)))

atof(tok) == AtofFrom(tok, 0)

\* convert2gmx(x, eg2cPm): picometre to nanometre, on lengths that are whole
\* nanometre-thousandths
convert2gmx_pm(x) == x \div 1000

----------------------------------------------------------------------------
(* The force field (Parameter Store) *)

ATypes == {"C", "H"}

\* gmx_poldata_atype_to_btype
atype_to_btype(at) == IF at = "C" THEN "c" ELSE "h"

BTypes == {atype_to_btype(at) : at \in ATypes}

AllTuples(k) == [1..k -> BTypes]
NoHTuples(k) == {t \in AllTuples(k) : \A i \in 1..k : t[i] # "h"}

CountH(t) == Cardinality({i \in 1..Len(t) : t[i] = "h"})

\* A lookup result: found or not, the base value and the auxiliary string
NoMatch == [found |-> FALSE, xx |-> 0, params |-> <<>>]

\* gmx_poldata_search_bond: the pair is tried in both directions
gmx_poldata_search_bond(p, bi, bj) ==
    IF <<bi, bj>> \in p.bondTab \/ <<bj, bi>> \in p.bondTab
    THEN [found |-> TRUE, xx |-> 1000 * (100 + 10 * CountH(<<bi, bj>>)),
          params |-> <<"4", "0", "0", SP, SP, "2">>]
    ELSE NoMatch

\* gmx_poldata_search_angle: centre fixed, outer two in both directions
gmx_poldata_search_angle(p, bi, bj, bk) ==
    IF <<bi, bj, bk>> \in p.angleTab \/ <<bk, bj, bi>> \in p.angleTab
    THEN [found |-> TRUE, xx |-> 109 + CountH(<<bi, bj, bk>>),
          params |-> <<"5", "0">>]
    ELSE NoMatch

\* gmx_poldata_search_dihedral, for the proper (egd = 0) or improper (1) table
gmx_poldata_search_dihedral(p, egd, bi, bj, bk, bl) ==
    IF <<bi, bj, bk, bl>> \in p.dihTab[egd] \/ <<bl, bk, bj, bi>> \in p.dihTab[egd]
    THEN [found |-> TRUE, xx |-> 180 * egd + CountH(<<bi, bj, bk, bl>>),
          params |-> <<"5", SP, "3">>]
    ELSE NoMatch

\* gmx_poldata_get_atype_pol: 1 and the polarizability when the type has one
gmx_poldata_get_atype_pol(p, at) ==
    IF at \in DOMAIN p.pol THEN [found |-> 1, pol |-> p.pol[at]]
    ELSE [found |-> 0, pol |-> 0]

----------------------------------------------------------------------------
(* Moving the lists between the canonical and the force field's types *)

\* mv_plist: dst takes src's entries, src is emptied
mv_plist(pl, dst, src) == [pl EXCEPT ![dst] = pl[src], ![src] = <<>>]

\* One of the four blocks of mv_plists
mv_one(pl, ft, canon, bForward) ==
    IF canon # ft
    THEN (IF bForward THEN mv_plist(pl, ft, canon) ELSE mv_plist(pl, canon, ft))
    ELSE pl

\* mv_plists: fatal when a functional type is not set, else the four moves
\* in the order bonds, angles, proper dihedrals, improper dihedrals
mv_plists(p, pl, bForward) ==
    IF FTypeNotSet \in {p.bond_ftype, p.angle_ftype, p.pdih_ftype, p.idih_ftype}
    THEN [fatal |-> TRUE, plist |-> pl]
    ELSE LET p1 == mv_one(pl, p.bond_ftype, "F_BONDS", bForward)
             p2 == mv_one(p1, p.angle_ftype, "F_ANGLES", bForward)
             p3 == mv_one(p2, p.pdih_ftype, "F_PDIHS", bForward)
             p4 == mv_one(p3, p.idih_ftype, "F_IDIHS", bForward)
         IN [fatal |-> FALSE, plist |-> p4]

----------------------------------------------------------------------------
(* Parameter resolution *)

\* The token loop of get_force_constants: every non-empty token goes to the
\* next slot, while fewer than MAXFORCEPARAM-1 have been stored
RECURSIVE StoreTokens_oneMore(_, _, _)
StoreTokens_oneMore(c, ptr, n) ==
    IF ptr = <<>> THEN c
    ELSE IF Len(Head(ptr)) > 0 /\ n < MAXFORCEPARAM
    THEN StoreTokens_oneMore([c EXCEPT ![1 + n] = atof(Head(ptr))], Tail(ptr), n + 1)
    ELSE StoreTokens_oneMore(c, Tail(ptr), n)

RECURSIVE StoreTokens(_, _, _)
StoreTokens(c, ptr, n) ==
    IF ptr = <<>> THEN c
    ELSE IF Len(Head(ptr)) > 0 /\ n < MAXFORCEPARAM - 1
    THEN StoreTokens([c EXCEPT ![1 + n] = atof(Head(ptr))], Tail(ptr), n + 1)
    ELSE StoreTokens(c, Tail(ptr), n)

\* The body of one of the three loops: on a match slot 0 takes the base
\* value and the tokens follow; without a match the entry is left as it is
SetConstants(prm, r, c0) ==
    IF r.found
    THEN [prm EXCEPT !.c = StoreTokens([prm.c EXCEPT ![0] = c0], split(r.params, SP), 0)]
    ELSE prm

ATP(at, ii) == atype_to_btype(at[ii].atype)

ResolveBonds(p, list, at) ==
    [j \in DOMAIN list |->
        LET r == gmx_poldata_search_bond(p, ATP(at, list[j].a[1]), ATP(at, list[j].a[2]))
        IN SetConstants(list[j], r, convert2gmx_pm(r.xx))]

ResolveAngles(p, list, at) ==
    [j \in DOMAIN list |->
        LET r == gmx_poldata_search_angle(p, ATP(at, list[j].a[1]), ATP(at, list[j].a[2]),
                                          ATP(at, list[j].a[3]))
        IN SetConstants(list[j], r, r.xx)]

ResolveDihedrals(p, egd, list, at) ==
    [j \in DOMAIN list |->
        LET r == gmx_poldata_search_dihedral(p, egd, ATP(at, list[j].a[1]),
                                             ATP(at, list[j].a[2]), ATP(at, list[j].a[3]),
                                             ATP(at, list[j].a[4]))
        IN SetConstants(list[j], r, r.xx)]

gmx_poldata_get_dihedral_ftype(p, egd) == IF egd = 0 THEN p.pdih_ftype ELSE p.idih_ftype

\* get_force_constants: the bond list, the angle list, then the two
\* dihedral lists, each under the force field's functional type
get_force_constants(p, pl, at) ==
    LET p1 == [pl EXCEPT ![p.bond_ftype] = ResolveBonds(p, pl[p.bond_ftype], at)]
        p2 == [p1 EXCEPT ![p.angle_ftype] = ResolveAngles(p, p1[p.angle_ftype], at)]
        f0 == gmx_poldata_get_dihedral_ftype(p, 0)
        p3 == [p2 EXCEPT ![f0] = ResolveDihedrals(p, 0, p2[f0], at)]
        f1 == gmx_poldata_get_dihedral_ftype(p, 1)
    IN [p3 EXCEPT ![f1] = ResolveDihedrals(p, 1, p3[f1], at)]

\* Whether every lookup get_force_constants makes on these lists finds a match
AllResolved(p, pl, at) ==
    /\ \A j \in DOMAIN pl[p.bond_ftype] :
          gmx_poldata_search_bond(p, ATP(at, pl[p.bond_ftype][j].a[1]),
                                  ATP(at, pl[p.bond_ftype][j].a[2])).found
    /\ \A j \in DOMAIN pl[p.angle_ftype] :
          gmx_poldata_search_angle(p, ATP(at, pl[p.angle_ftype][j].a[1]),
                                   ATP(at, pl[p.angle_ftype][j].a[2]),
                                   ATP(at, pl[p.angle_ftype][j].a[3])).found
    /\ \A egd \in {0, 1} :
          LET ft == gmx_poldata_get_dihedral_ftype(p, egd)
          IN \A j \in DOMAIN pl[ft] :
                gmx_poldata_search_dihedral(p, egd, ATP(at, pl[ft][j].a[1]),
                                            ATP(at, pl[ft][j].a[2]), ATP(at, pl[ft][j].a[3]),
                                            ATP(at, pl[ft][j].a[4])).found

----------------------------------------------------------------------------
(* Bonded-term generation *)

\* gen_nnb: the bonds of every chemical-bond list, as unordered pairs
BondedPairs(pl) ==
    UNION {{{pl[ft][j].a[1], pl[ft][j].a[2]} : j \in DOMAIN pl[ft]} : ft \in ChemBondTypes}

Nbrs(pl, i) == {j \in UNION BondedPairs(pl) : j # i /\ {i, j} \in BondedPairs(pl)}

\* Atoms within k bonds of i (i included)
RECURSIVE Within(_, _, _)
Within(pl, i, k) ==
    IF k = 0 THEN {i}
    ELSE LET w == Within(pl, i, k - 1)
         IN w \cup UNION {Nbrs(pl, j) : j \in w}

AngleTuples(pl, nr) ==
    {<<i, j, k>> \in (0..nr-1) \X (0..nr-1) \X (0..nr-1) :
        i < k /\ i \in Nbrs(pl, j) /\ k \in Nbrs(pl, j)}

DihedralTuples(pl, nr) ==
    {<<i, j, k, l>> \in (0..nr-1) \X (0..nr-1) \X (0..nr-1) \X (0..nr-1) :
        /\ j < k /\ k \in Nbrs(pl, j)
        /\ i \in Nbrs(pl, j) \ {k}
        /\ l \in Nbrs(pl, k) \ {j}
        /\ i # l}

PairTuples(pl, nr) ==
    {<<Min(t[1], t[4]), Max(t[1], t[4])>> : t \in DihedralTuples(pl, nr)}

\* One improper per atom with three or more neighbours: the centre and its
\* three lowest neighbours
ImproperTuples(pl, nr) ==
    {<<c>> \o SubSeq(SortedSeq(Nbrs(pl, c)), 1, 3) :
        c \in {i \in 0..nr-1 : Cardinality(Nbrs(pl, i)) >= 3}}

NewTerms(tuples) ==
    LET srt == SortTuples(tuples)
    IN [j \in DOMAIN srt |-> Param(srt[j], NotsetC)]

\* gen_pad: the generated terms are stored behind what the lists hold
gen_pad(pl, nr) ==
    [pl EXCEPT !["F_ANGLES"] = @ \o NewTerms(AngleTuples(pl, nr)),
               !["F_PDIHS"] = @ \o NewTerms(DihedralTuples(pl, nr)),
               !["F_IDIHS"] = @ \o NewTerms(ImproperTuples(pl, nr)),
               !["F_LJ14"] = @ \o NewTerms(PairTuples(pl, nr))]

\* generate_excls: every atom excludes the atoms within nexcl bonds
generate_excls(pl, nr, nexcl) ==
    [i \in 0..nr-1 |-> SortedSeq(Within(pl, i, nexcl) \ {i})]

\* MyMol::MakeAngles: new exclusion array, neighbour table, gen_pad,
\* generate_excls
MakeAngles_exclsOnly(pl, nr, nexcl) ==
    [plist |-> pl, excls |-> generate_excls(pl, nr, nexcl)]

MakeAngles(pl, nr, nexcl) ==
    [plist |-> gen_pad(pl, nr), excls |-> generate_excls(pl, nr, nexcl)]

----------------------------------------------------------------------------
(* Geometry: coordinates are integer points <<x, y>> of one plane *)

Sub(p, q) == <<p[1] - q[1], p[2] - q[2]>>
Dot(u, v) == u[1] * v[1] + u[2] * v[2]
Cross(u, v) == u[1] * v[2] - u[2] * v[1]

\* cos^2 of th_toler degrees, as a fraction
CosSqToler == [deg \in {5} |-> [num |-> 992404, den |-> 1000000]][th_toler]

\* bond_angle(xi, xj, xk): the angle at xj between xi-xj and xk-xj.  The
\* angle th (in degrees, 0..180) is compared through its cosine:
\* th > th_toler and th < 180 - th_toler.  A vector of length 0 gives the
\* cosine 1.
ThAboveToler(xi, xj, xk) ==
    LET d == Dot(Sub(xi, xj), Sub(xk, xj))
        n == Dot(Sub(xi, xj), Sub(xi, xj)) * Dot(Sub(xk, xj), Sub(xk, xj))
    IN d < 0 \/ d * d * CosSqToler.den < CosSqToler.num * n

ThBelow180MinusToler(xi, xj, xk) ==
    LET d == Dot(Sub(xi, xj), Sub(xk, xj))
        n == Dot(Sub(xi, xj), Sub(xi, xj)) * Dot(Sub(xk, xj), Sub(xk, xj))
    IN n = 0 \/ d > 0 \/ d * d * CosSqToler.den < CosSqToler.num * n

\* is_linear(xi, xj, xk, pbc, th_toler)
is_linear(xi, xj, xk) == ThAboveToler(xi, xj, xk) \/ ThBelow180MinusToler(xi, xj, xk)

\* is_planar(xi, xj, xk, xl, pbc, phi_toler): in one plane the dihedral is 0
\* when the normals r_ij x r_kj and r_kj x r_kl do not point apart, else 180
is_planar(xi, xj, xk, xl) ==
    LET phi == IF Cross(Sub(xi, xj), Sub(xk, xj)) * Cross(Sub(xk, xj), Sub(xk, xl)) >= 0
               THEN 0 ELSE 180
    IN phi < ph_toler

\* bonds[i] of MakeSpecialInteractions: the partners of atom i in the order
\* of the molecule's bond list (1-based there)
RECURSIVE BondPartners(_, _)
BondPartners(blist, i) ==
    IF blist = <<>> THEN <<>>
    ELSE LET b == Head(blist)
             rest == BondPartners(Tail(blist), i)
         IN (IF b[1] - 1 = i THEN <<b[2] - 1>> ELSE <<>>) \o
            (IF b[2] - 1 = i THEN <<b[1] - 1>> ELSE <<>>) \o rest

\* The classification loop: gvt.addLinear(bonds[i][0], i, bonds[i][1])
LinearMotifs(blist, x, nr) ==
    {<<BondPartners(blist, i)[1], i, BondPartners(blist, i)[2]>> :
        i \in {k \in 0..nr-1 :
                  /\ Len(BondPartners(blist, k)) = 2
                  /\ is_linear(x[k], x[BondPartners(blist, k)[1]],
                               x[BondPartners(blist, k)[2]])}}

\* gvt.addPlanar(i, bonds[i][0], bonds[i][1], bonds[i][2], nbonds)
PlanarMotifs(blist, x, nr) ==
    {<<i>> \o BondPartners(blist, i) :
        i \in {k \in 0..nr-1 :
                  /\ Len(BondPartners(blist, k)) = 3
                  /\ is_planar(x[k], x[BondPartners(blist, k)[1]],
                               x[BondPartners(blist, k)[2]],
                               x[BondPartners(blist, k)[3]])}}

\* gvt.generateSpecial without virtual sites: one linear-angle term per
\* registered linear motif, no new atoms
generateSpecial(pl, g) ==
    [pl EXCEPT !["F_LINEAR_ANGLES"] = NewTerms(g.linear)]

\* MyMol::MakeSpecialInteractions
MakeSpecialInteractions(pl, g, blist, x, nr) ==
    LET g2 == [linear |-> g.linear \cup LinearMotifs(blist, x, nr),
               planar |-> g.planar \cup PlanarMotifs(blist, x, nr)]
    IN [gvt |-> g2, plist |-> generateSpecial(pl, g2)]

----------------------------------------------------------------------------
(* Topology assembly.  ffparams is the sequence of the table's entries; the *)
(* entry with handle h (0-based) is ffparams[h + 1].                        *)

\* The type count of do_init_mtop: 1 plus the atoms after the first whose
\* type no earlier atom has
CountTypes(at, nr) ==
    1 + Cardinality({i \in 1..nr-1 : \A j \in 0..i-1 : at[j].atype # at[i].atype})

\* do_init_mtop: the type x type matrix, every entry of the van der Waals
\* type with zero parameters, and a fresh atom array
do_init_mtop(p, at, nr) ==
    LET ntype == CountTypes(at, nr)
    IN [natoms |-> nr,
        atnr |-> ntype,
        ntypes |-> ntype * ntype,
        nalloc |-> ntype * ntype,
        ffparams |-> [idx \in 1..(ntype * ntype) |-> [ft |-> p.vdw_ftype, c |-> ZeroC]],
        atomtype |-> [i \in 0..nr-1 |-> 0],
        ilist |-> [ft \in FTypes |-> <<>>],
        excls |-> <<>>]

\* enter_params(ffparams, ftype, forceparams, comb, reppow, start, flag) is
\* not among the sources at hand.  It is modelled as the specification
\* describes the table: a tuple of the same type entered before keeps its
\* handle, any other tuple becomes a new entry behind the last one.  start
\* and flag are what the call hands over; the description gives them no
\* meaning.
enter_params(ff, ftype, c, start, flag) ==
    LET hits == {h \in 0..Len(ff)-1 : ff[h + 1] = [ft |-> ftype, c |-> c]}
    IN IF hits # {}
       THEN [ffparams |-> ff, type |-> CHOOSE h \in hits : \A g \in hits : h <= g]
       ELSE [ffparams |-> Append(ff, [ft |-> ftype, c |-> c]), type |-> Len(ff)]

\* The coefficient array plist_to_mtop enters for a term
TermCoefs_keepNotset(m, p, ft, prm) ==
    IF ft = "F_LJ14"
    THEN LET tp == m.atomtype[prm.a[1]] * m.atnr + m.atomtype[prm.a[2]]
         IN [l \in Coefs |-> IF l < 2 THEN m.ffparams[tp + 1].c[l] * p.fudgeLJ ELSE 0]
    ELSE [l \in Coefs |-> IF l < NRFPA(ft) THEN prm.c[l] ELSE 0]

TermCoefs(m, p, ft, prm) ==
    IF ft = "F_LJ14"
    THEN LET tp == m.atomtype[prm.a[1]] * m.atnr + m.atomtype[prm.a[2]]
         IN [l \in Coefs |-> IF l < 2 THEN m.ffparams[tp + 1].c[l] * p.fudgeLJ ELSE 0]
    ELSE [l \in Coefs |-> IF l < NRFPA(ft)
                          THEN (IF prm.c[l] = NOTSET THEN 0 ELSE prm.c[l])
                          ELSE 0]

\* The loop over the terms of one list: st is [m, n] with m the topology
\* and n the handle the previous call returned
RECURSIVE EnterTerms(_, _, _, _, _)
EnterTerms(st, p, ft, list, j) ==
    IF j > Len(list) THEN st
    ELSE LET r == enter_params(st.m.ffparams, ft, TermCoefs(st.m, p, ft, list[j]),
                               st.n, TRUE)
             m2 == [st.m EXCEPT !.ffparams = r.ffparams,
                                !.ntypes = Len(r.ffparams),
                                !.ilist[ft] = @ \o <<r.type>> \o list[j].a]
         IN EnterTerms([m |-> m2, n |-> r.type], p, ft, list, j + 1)

RECURSIVE EnterLists(_, _, _, _)
EnterLists(st, p, pl, i) ==
    IF i > Len(FTypeOrder) THEN st
    ELSE EnterLists(EnterTerms(st, p, FTypeOrder[i], pl[FTypeOrder[i]], 1), p, pl, i + 1)

RECURSIVE SumSeq(_)
SumSeq(s) == IF s = <<>> THEN 0 ELSE Head(s) + SumSeq(Tail(s))

\* nfptot: the table size plist_to_mtop reserves
Nfptot(m, pl) ==
    m.ntypes + SumSeq([i \in DOMAIN FTypeOrder |->
                          Len(pl[FTypeOrder[i]]) * NRFPA(FTypeOrder[i])])

\* plist_to_mtop
plist_to_mtop(p, pl, m) ==
    EnterLists([m |-> [m EXCEPT !.nalloc = Nfptot(m, pl)], n |-> 0], p, pl, 1).m

\* excls__to_blocka: the exclusion lists one behind the other, with the
\* start of each atom's part
RECURSIVE Concat(_, _, _)
Concat(ex, i, nr) == IF i >= nr THEN <<>> ELSE ex[i] \o Concat(ex, i + 1, nr)

excls__to_blocka(nr, ex) ==
    [nr |-> nr,
     index |-> [i \in 0..nr |-> Len(Concat(ex, 0, i))],
     a |-> Concat(ex, 0, nr)]

----------------------------------------------------------------------------
(* Inputs: molecules and force fields *)

Shapes(n) ==
    IF n <= 2 THEN {"chain", "loose"}
    ELSE IF n = 3 THEN {"chain", "line", "ring"}
    ELSE {"chain", "line", "star", "ring"}

\* The bond list of the input, 1-based as in the molecule's data
ShapeBonds(n, shape) ==
    CASE shape \in {"chain", "line"} -> [k \in 1..n-1 |-> <<k, k + 1>>]
      [] shape = "star" -> [k \in 1..n-1 |-> <<1, k + 1>>]
      [] shape = "ring" -> [k \in 1..n |-> IF k < n THEN <<k, k + 1>> ELSE <<n, 1>>]
      [] shape = "loose" -> <<>>

ShapeCoords(n, shape) ==
    LET RingPos == <<(<<2, 0>>), (<<1, 2>>), (<<-1, 2>>), (<<-2, 0>>), (<<-1, -2>>), (<<1, -2>>)>>
        StarPos == <<(<<2, 0>>), (<<-1, 2>>), (<<-1, -2>>), (<<-3, 1>>), (<<-3, -1>>)>>
    IN
    CASE shape \in {"chain", "loose"} -> [k \in 0..n-1 |-> <<k, k % 2>>]
      [] shape = "line" -> [k \in 0..n-1 |-> <<k, 0>>]
      [] shape = "star" -> [k \in 0..n-1 |-> IF k = 0 THEN <<0, 0>> ELSE StarPos[k]]
      [] shape = "ring" -> [k \in 0..n-1 |-> RingPos[k + 1]]

\* comp is NAtom() of the composition, lot whether the molecule has a
\* calculation at the level of theory asked for, qs scales the charges
Molecule(n, shape, comp, lot, qs) ==
    [n |-> n, comp |-> comp, lot |-> lot,
     bonds |-> ShapeBonds(n, shape),
     x |-> ShapeCoords(n, shape),
     atype |-> [k \in 0..n-1 |-> IF k % 2 = 0 THEN "C" ELSE "H"],
     m |-> [k \in 0..n-1 |-> IF k % 2 = 0 THEN 12 ELSE 1],
     q |-> [k \in 0..n-1 |-> qs * ((k % 3) - 1)]]

MolKeys ==
    {k \in (1..MaxAtoms) \X {"chain", "line", "star", "ring", "loose"} : k[2] \in Shapes(k[1])}

\* Molecules with complete data and, for the two-atom ones, without a
\* composition and without the level of theory asked for
Molecules ==
    {Molecule(k[1], k[2], k[1], TRUE, 1) : k \in MolKeys} \cup
    {Molecule(k[1], k[2], 0, TRUE, 1) : k \in {m \in MolKeys : m[1] = 2}} \cup
    {Molecule(k[1], k[2], k[1], FALSE, 1) : k \in {m \in MolKeys : m[1] = 2}}

\* The tables of a force field that lacks the entries of one kind for the
\* bond type h
Tables(missing) ==
    [bondTab |-> IF missing = "bond" THEN NoHTuples(2) ELSE AllTuples(2),
     angleTab |-> IF missing = "angle" THEN NoHTuples(3) ELSE AllTuples(3),
     dihTab |-> [egd \in {0, 1} |->
                   IF missing = "dihedral" THEN NoHTuples(4) ELSE AllTuples(4)]]

Poldata(bft, aft, pft, ift, missing, pol) ==
    [bond_ftype |-> bft, angle_ftype |-> aft, pdih_ftype |-> pft, idih_ftype |-> ift,
     vdw_ftype |-> "F_LJ", fudgeLJ |-> 1,
     bondTab |-> Tables(missing).bondTab,
     angleTab |-> Tables(missing).angleTab,
     dihTab |-> Tables(missing).dihTab,
     pol |-> pol]

NoPol == [at \in {} |-> 0]

\* The functional types of a force field file: the usual ones, one of them
\* replaced, one of them not set, none of them set
FTypeChoices ==
    {<<bft, "F_ANGLES", "F_PDIHS", "F_IDIHS">> :
        bft \in {FTypeNotSet, "F_BONDS", "F_MORSE"}} \cup
    {<<"F_MORSE", aft, "F_PDIHS", "F_IDIHS">> :
        aft \in {FTypeNotSet, "F_ANGLES", "F_UREY_BRADLEY"}} \cup
    {<<"F_MORSE", "F_ANGLES", pft, "F_IDIHS">> :
        pft \in {FTypeNotSet, "F_PDIHS", "F_FOURDIHS"}} \cup
    {<<"F_MORSE", "F_ANGLES", "F_PDIHS", ift>> :
        ift \in {FTypeNotSet, "F_IDIHS", "F_PDIHS"}} \cup
    {<<FTypeNotSet, FTypeNotSet, FTypeNotSet, FTypeNotSet>>}

\* What gmx_poldata_get_vdw_ftype can return besides F_LJ: F_BHAM, and a
\* value that is neither
VdwChoices == {"F_BHAM", FTypeNotSet}

Poldatas ==
    {Poldata(f[1], f[2], f[3], f[4], missing, NoPol) :
        f \in FTypeChoices, missing \in {"none", "bond", "angle", "dihedral"}} \cup
    {[Poldata("F_BONDS", "F_ANGLES", "F_PDIHS", "F_IDIHS", "none", NoPol)
         EXCEPT !.vdw_ftype = v] : v \in VdwChoices}

Arguments ==
    [nexcl : {1, 2}, bUseVsites : {FALSE}, bPairs : BOOLEAN, edih : {"edihNo", "edihAll"}]

----------------------------------------------------------------------------
(* The state after the constructor MyMol::MyMol *)

\* mtop_ before snew(mtop_, 1)
NullTop == [null |-> TRUE]

BtsNames == {"ebtsBONDS", "ebtsANGLES", "ebtsPDIHS", "ebtsIDIHS", "ebtsEXCLS", "ebtsCMAP"}

NoAtoms == [i \in {} |-> 0]

IdleRing == [pc |-> "off", natom |-> 0, bonds |-> <<>>, bRing |-> NoAtoms]
IdleLin == [pc |-> "off", x |-> NoAtoms, bonds |-> <<>>, linear |-> {}]

\* The other components before anything runs in them
IdleCall == [pc |-> "off"]
IdleKernel == [pc |-> "off"]
IdleStorage == [pc |-> "off"]
IdleCube == [pc |-> "off"]

OthersIdle ==
    /\ call = IdleCall
    /\ kernel = IdleKernel
    /\ storage = IdleStorage
    /\ cube = IdleCube

Constructed ==
    /\ pc = "idle"
    /\ pass = 0
    /\ bts = [b \in BtsNames |-> FTypeNotSet]
    /\ nexcl_ = 0
    /\ atoms = NoAtoms
    /\ x_ = NoAtoms
    /\ gvt = [linear |-> {}, planar |-> {}]
    /\ plist_ = init_plist
    /\ excls_ = NoAtoms
    /\ mtop_ = NullTop
    /\ ltop_ = "NULL"
    /\ imm = "immOK"
    /\ ran = <<>>
    /\ hist = <<>>

Init ==
    /\ OthersIdle
    /\ Constructed
    /\ pd \in Poldatas
    /\ mol \in Molecules
    /\ args \in Arguments
    /\ ring = IdleRing
    /\ lin = IdleLin

----------------------------------------------------------------------------
(* MyMol::GenerateTopology, stage by stage.  The function runs to its end   *)
(* without interruption; pc names the stage it is about to enter.           *)

\* The four checks at the top: bts takes the force field's types in the
\* order bonds, angles, impropers, propers, up to the first that is not set
BtsChecked_noImproperTest(p) ==
    LET b1 == [[b \in BtsNames |-> bts[b]] EXCEPT !["ebtsBONDS"] = p.bond_ftype]
        b2 == [b1 EXCEPT !["ebtsANGLES"] = p.angle_ftype]
        b3 == [b2 EXCEPT !["ebtsIDIHS"] = p.idih_ftype]
        b4 == [b3 EXCEPT !["ebtsPDIHS"] = p.pdih_ftype]
    IN IF p.bond_ftype = FTypeNotSet THEN [fatal |-> TRUE, bts |-> b1]
       ELSE IF p.angle_ftype = FTypeNotSet THEN [fatal |-> TRUE, bts |-> b2]
       ELSE IF p.pdih_ftype = FTypeNotSet THEN [fatal |-> TRUE, bts |-> b4]
       ELSE [fatal |-> FALSE,
             bts |-> [b4 EXCEPT !["ebtsCMAP"] = "F_CMAP", !["ebtsEXCLS"] = "F_BONDS"]]

BtsChecked(p) ==
    LET b1 == [[b \in BtsNames |-> bts[b]] EXCEPT !["ebtsBONDS"] = p.bond_ftype]
        b2 == [b1 EXCEPT !["ebtsANGLES"] = p.angle_ftype]
        b3 == [b2 EXCEPT !["ebtsIDIHS"] = p.idih_ftype]
        b4 == [b3 EXCEPT !["ebtsPDIHS"] = p.pdih_ftype]
    IN IF p.bond_ftype = FTypeNotSet THEN [fatal |-> TRUE, bts |-> b1]
       ELSE IF p.angle_ftype = FTypeNotSet THEN [fatal |-> TRUE, bts |-> b2]
       ELSE IF p.idih_ftype = FTypeNotSet THEN [fatal |-> TRUE, bts |-> b3]
       ELSE IF p.pdih_ftype = FTypeNotSet THEN [fatal |-> TRUE, bts |-> b4]
       ELSE [fatal |-> FALSE,
             \* bts[ebtsEXCLS] = 0, and 0 is the number of F_BONDS
             bts |-> [b4 EXCEPT !["ebtsCMAP"] = "F_CMAP", !["ebtsEXCLS"] = "F_BONDS"]]

\* The atom array holds shells: the lists then number atoms that a new
\* atom array of the molecule does not have
HasShells(at) == \E i \in DOMAIN at : at[i].ptype = "eptShell"

\* What a call finds when it starts
Entry ==
    [op |-> "begin", atoms |-> atoms, plist |-> plist_, excls |-> excls_,
     mtop |-> mtop_, ltop |-> ltop_]

\* Lines 1198-1224: the checks (gmx_fatal ends the program), nexcl_,
\* GenerateComposition and the test of NAtom()
GT_Begin ==
    /\ pc = "idle"
    /\ pass < MaxPasses
    /\ ~HasShells(atoms)
    /\ LET r == BtsChecked(pd)
       IN /\ bts' = r.bts
          /\ IF r.fatal
             THEN /\ pc' = "fatal"
                  /\ UNCHANGED <<call, kernel, storage, cube, nexcl_, imm>>
             ELSE /\ pc' = "atoms"
                  /\ nexcl_' = args.nexcl
                  /\ imm' = IF mol.comp <= 0 THEN "immAtomTypes" ELSE "immOK"
    /\ pass' = pass + 1
    /\ ran' = <<>>
    /\ hist' = Append(hist, Entry)
    /\ UNCHANGED <<call, kernel, storage, cube, pd, mol, args, atoms, x_, gvt, plist_, excls_, mtop_, ltop_, ring, lin>>

\* MyMol::GenerateAtoms: the atoms of the calculation at the level of theory,
\* or immLOT
GenerateAtoms_anyLot(ml) ==
    [imm |-> "immOK",
     atoms |-> [i \in 0..ml.n-1 |->
                  [atype |-> ml.atype[i], q |-> ml.q[i], qB |-> ml.q[i],
                   m |-> ml.m[i], mB |-> ml.m[i], ptype |-> "eptAtom"]],
     x |-> ml.x]

GenerateAtoms(ml) ==
    IF ml.lot
    THEN [imm |-> "immOK",
          atoms |-> [i \in 0..ml.n-1 |->
                       [atype |-> ml.atype[i], q |-> ml.q[i], qB |-> ml.q[i],
                        m |-> ml.m[i], mB |-> ml.m[i], ptype |-> "eptAtom"]],
          x |-> ml.x]
    ELSE [imm |-> "immLOT", atoms |-> NoAtoms, x |-> x_]

\* Lines 1225-1231: a new topology_ and the atoms
GT_Atoms ==
    /\ pc = "atoms"
    /\ pc' = "bonds"
    /\ IF imm = "immOK"
       THEN LET r == GenerateAtoms(mol)
            IN /\ imm' = r.imm
               /\ atoms' = r.atoms
               /\ x_' = r.x
               /\ ran' = Append(ran, "atoms")
       ELSE UNCHANGED <<call, kernel, storage, cube, imm, atoms, x_, ran>>
    /\ UNCHANGED <<call, kernel, storage, cube, pd, mol, args, pass, bts, nexcl_, gvt, plist_, excls_, mtop_, ltop_,
                   hist, ring, lin>>

\* The loop of lines 1237-1242: every bond of the molecule is added to the
\* canonical bond list
StoreBonds_none(list, blist) == list

RECURSIVE StoreBonds(_, _)
StoreBonds(list, blist) ==
    IF blist = <<>> THEN list
    ELSE StoreBonds(add_param_to_list(list, Param(<<Head(blist)[1] - 1, Head(blist)[2] - 1>>, ZeroC)),
                    Tail(blist))

\* Lines 1232-1247
GT_Bonds ==
    /\ pc = "bonds"
    /\ pc' = "generate"
    /\ IF imm = "immOK"
       THEN /\ plist_' = [plist_ EXCEPT !["F_BONDS"] = StoreBonds(@, mol.bonds)]
            /\ imm' = IF Len(mol.bonds) = 0 THEN "immGenBonds" ELSE "immOK"
            /\ ran' = Append(ran, "bonds")
       ELSE UNCHANGED <<call, kernel, storage, cube, plist_, imm, ran>>
    /\ UNCHANGED <<call, kernel, storage, cube, pd, mol, args, pass, bts, nexcl_, atoms, x_, gvt, excls_, mtop_, ltop_,
                   hist, ring, lin>>

\* Lines 1248-1251
GT_MakeAngles ==
    /\ pc = "generate"
    /\ IF imm = "immOK"
       THEN LET r == MakeAngles(plist_, Cardinality(DOMAIN atoms), nexcl_)
            IN /\ plist_' = r.plist
               /\ excls_' = r.excls
               /\ ran' = Append(ran, "angles")
               /\ pc' = "special"
       ELSE /\ pc' = "resolve"
            /\ UNCHANGED <<call, kernel, storage, cube, plist_, excls_, ran>>
    /\ UNCHANGED <<call, kernel, storage, cube, pd, mol, args, pass, bts, nexcl_, atoms, x_, gvt, mtop_, ltop_, imm,
                   hist, ring, lin>>

\* Line 1254
GT_Special ==
    /\ pc = "special"
    /\ pc' = "switches"
    /\ LET r == MakeSpecialInteractions(plist_, gvt, mol.bonds, x_, Cardinality(DOMAIN atoms))
       IN /\ gvt' = r.gvt
          /\ plist_' = r.plist
    /\ ran' = Append(ran, "special")
    /\ UNCHANGED <<call, kernel, storage, cube, pd, mol, args, pass, bts, nexcl_, atoms, x_, excls_, mtop_, ltop_, imm,
                   hist, ring, lin>>

\* Lines 1256-1266: the two policy switches
PolicySwitches_wrongIndex(pl, bPairs, edih) ==
    LET p1 == IF ~bPairs THEN [pl EXCEPT !["F_LJ14"] = <<>>] ELSE pl
    IN IF edih = "edihNo" THEN [p1 EXCEPT !["F_IDIHS"] = <<>>] ELSE p1

PolicySwitches(pl, bPairs, edih) ==
    LET p1 == IF ~bPairs THEN [pl EXCEPT !["F_LJ14"] = <<>>] ELSE pl
    IN IF edih = "edihNo" THEN [p1 EXCEPT !["F_PDIHS"] = <<>>] ELSE p1

GT_Switches ==
    /\ pc = "switches"
    /\ pc' = "remap"
    /\ plist_' = PolicySwitches(plist_, args.bPairs, args.edih)
    /\ ran' = Append(ran, "switches")
    /\ UNCHANGED <<call, kernel, storage, cube, pd, mol, args, pass, bts, nexcl_, atoms, x_, gvt, excls_, mtop_, ltop_,
                   imm, hist, ring, lin>>

\* Line 1269
GT_Remap ==
    /\ pc = "remap"
    /\ LET r == mv_plists(pd, plist_, TRUE)
       IN /\ plist_' = r.plist
          /\ pc' = IF r.fatal THEN "fatal" ELSE "resolve"
    /\ ran' = Append(ran, "remap")
    /\ UNCHANGED <<call, kernel, storage, cube, pd, mol, args, pass, bts, nexcl_, atoms, x_, gvt, excls_, mtop_, ltop_,
                   imm, hist, ring, lin>>

\* Lines 1271-1273
GT_Resolve ==
    /\ pc = "resolve"
    /\ IF imm = "immOK"
       THEN /\ plist_' = get_force_constants(pd, plist_, atoms)
            /\ ran' = Append(ran, "resolve")
            /\ pc' = "assemble"
       ELSE /\ pc' = "return"
            /\ UNCHANGED <<call, kernel, storage, cube, plist_, ran>>
    /\ UNCHANGED <<call, kernel, storage, cube, pd, mol, args, pass, bts, nexcl_, atoms, x_, gvt, excls_, mtop_, ltop_,
                   imm, hist, ring, lin>>

\* Lines 1275-1283: do_init_mtop, plist_to_mtop, excls__to_blocka and the
\* local topology
Assemble(p, pl, at, ex) ==
    LET nr == Cardinality(DOMAIN at)
        m == plist_to_mtop(p, pl, do_init_mtop(p, at, nr))
    IN [m EXCEPT !.excls = excls__to_blocka(nr, ex)]

GT_Assemble ==
    /\ pc = "assemble"
    /\ pc' = "return"
    /\ mtop_' = [null |-> FALSE, top |-> Assemble(pd, plist_, atoms, excls_)]
    /\ ltop_' = "set"
    /\ ran' = Append(ran, "assemble")
    /\ UNCHANGED <<call, kernel, storage, cube, pd, mol, args, pass, bts, nexcl_, atoms, x_, gvt, plist_, excls_, imm,
                   hist, ring, lin>>

\* Line 1286: return imm
GT_Return ==
    /\ pc = "return"
    /\ pc' = "idle"
    /\ hist' = Append(hist, [op |-> "end", imm |-> imm, ran |-> ran, atoms |-> atoms,
                             plist |-> plist_, excls |-> excls_, mtop |-> mtop_,
                             ltop |-> ltop_])
    /\ UNCHANGED <<call, kernel, storage, cube, pd, mol, args, pass, bts, nexcl_, atoms, x_, gvt, plist_, excls_, mtop_,
                   ltop_, imm, ran, ring, lin>>

----------------------------------------------------------------------------
(* Shell insertion *)

\* add_excl: e is stored behind the others unless the list holds it
add_excl(list, e) == IF e \in Range(list) THEN list ELSE Append(list, e)

\* remove_excl: the entry at the 0-based position remove is taken out
remove_excl(list, remove) ==
    SubSeq(list, 1, remove) \o SubSeq(list, remove + 2, Len(list))

\* get_atomtype_ptype of an atom's type
get_atomtype_ptype(at, i) == at[i].ptype

\* The inner loop of prune_excl over the list of one atom
RECURSIVE PruneFrom_alwaysAdvance(_, _, _)
PruneFrom_alwaysAdvance(list, k, at) ==
    IF k >= Len(list) THEN list
    ELSE IF get_atomtype_ptype(at, list[k + 1]) # "eptShell"
         THEN PruneFrom_alwaysAdvance(remove_excl(list, k), k + 1, at)
         ELSE PruneFrom_alwaysAdvance(list, k + 1, at)

RECURSIVE PruneFrom(_, _, _)
PruneFrom(list, k, at) ==
    IF k >= Len(list) THEN list
    ELSE IF get_atomtype_ptype(at, list[k + 1]) # "eptShell"
         THEN PruneFrom(remove_excl(list, k), k, at)
         ELSE PruneFrom(list, k + 1, at)

\* prune_excl
prune_excl(ex, at) ==
    [i \in DOMAIN ex |->
        IF get_atomtype_ptype(at, i) # "eptShell" THEN PruneFrom(ex[i], 0, at) ELSE ex[i]]

\* An atom of the new array before anything is stored in it
NewAtom == [atype |-> "", q |-> 0, qB |-> 0, m |-> 0, mB |-> 0, ptype |-> "eptAtom"]

\* The name of the shell's type: the parent's with an s behind it
ShellTypeName(at) == IF at = "C" THEN "Cs" ELSE IF at = "H" THEN "Hs" ELSE "Xs"

Polarizable(p, at, i) == gmx_poldata_get_atype_pol(p, at[i].atype).found = 1

\* renum of lines 1941-1954: the new index of every atom, and of the end
renum(p, at) ==
    [i \in 0..Cardinality(DOMAIN at) |->
        i + Cardinality({k \in 0..i-1 : Polarizable(p, at, k)})]

\* The polarization terms of lines 1944-1952, in the order of the atoms
RECURSIVE ShellTerms_unscaled(_, _, _, _)
ShellTerms_unscaled(list, p, at, i) ==
    IF i >= Cardinality(DOMAIN at) THEN list
    ELSE IF Polarizable(p, at, i)
         THEN ShellTerms_unscaled(add_param_to_list(list,
                            Param(<<renum(p, at)[i], renum(p, at)[i] + 1>>,
                                  [ZeroC EXCEPT ![0] =
                                      gmx_poldata_get_atype_pol(p, at[i].atype).pol])),
                         p, at, i + 1)
         ELSE ShellTerms_unscaled(list, p, at, i + 1)

RECURSIVE ShellTerms(_, _, _, _)
ShellTerms(list, p, at, i) ==
    IF i >= Cardinality(DOMAIN at) THEN list
    ELSE IF Polarizable(p, at, i)
         THEN ShellTerms(add_param_to_list(list,
                            Param(<<renum(p, at)[i], renum(p, at)[i] + 1>>,
                                  \* p.c[0] = 0.001*pol
                                  [ZeroC EXCEPT ![0] =
                                      gmx_poldata_get_atype_pol(p, at[i].atype).pol \div 1000])),
                         p, at, i + 1)
         ELSE ShellTerms(list, p, at, i + 1)

\* add_excl on both lists, as lines 1973-1974, 2024-2025 and 2041-2042
add_excl_oneway(ex, ai, aj) == [ex EXCEPT ![ai] = add_excl(@, aj)]

add_excl_both(ex, ai, aj) ==
    [ex EXCEPT ![ai] = add_excl(@, aj), ![aj] = add_excl(@, ai)]

\* Lines 1969-1975
RECURSIVE PolExcls(_, _, _)
PolExcls(ex, list, j) ==
    IF j > Len(list) THEN ex
    ELSE PolExcls(add_excl_both(ex, list[j].a[1], list[j].a[2]), list, j + 1)

\* Lines 1992-1995: the atom's own exclusions under their new numbers
RECURSIVE OwnExcls(_, _, _, _, _)
OwnExcls(ex, old, rn, iat, k) ==
    IF k > Len(old) THEN ex
    ELSE OwnExcls([ex EXCEPT ![iat] = add_excl(@, rn[old[k]])], old, rn, iat, k + 1)

\* Lines 2018-2027: the shell j and the parent's exclusions
RECURSIVE ShellExcls(_, _, _, _, _)
ShellExcls(ex, old, rn, j, k) ==
    IF k > Len(old) THEN ex
    ELSE ShellExcls(IF j # rn[old[k]] THEN add_excl_both(ex, j, rn[old[k]]) ELSE ex,
                    old, rn, j, k + 1)

\* Lines 1998-2016: the shell is the parent's record with these changes
ShellOf(newa, parent, iat, j) ==
    [[newa EXCEPT ![j] = [parent EXCEPT !.m = 0, !.mB = 0, !.ptype = "eptShell",
                                        !.atype = ShellTypeName(parent.atype)]]
       EXCEPT ![iat].q = 0, ![iat].qB = 0]

\* Lines 1989-2029 for the atoms from i on
RECURSIVE ParentLoop(_, _, _, _, _, _)
ParentLoop(st, at, x, old, rn, i) ==
    IF i >= Cardinality(DOMAIN at) THEN st
    ELSE LET iat == rn[i]
             e1 == OwnExcls(st.excls, old[i], rn, iat, 1)
         IN IF iat + 1 < rn[i + 1]
            THEN ParentLoop([atoms |-> ShellOf(st.atoms, at[i], iat, iat + 1),
                             x |-> [st.x EXCEPT ![iat + 1] = x[i]],
                             excls |-> ShellExcls(e1, old[i], rn, iat + 1, 1)],
                            at, x, old, rn, i + 1)
            ELSE ParentLoop([st EXCEPT !.excls = e1], at, x, old, rn, i + 1)

\* Lines 2035-2044: the list of iat is read while the lists are written
RECURSIVE SpreadFrom(_, _, _, _)
SpreadFrom(ex, iat, j, k) ==
    IF k >= Len(ex[iat]) THEN ex
    ELSE SpreadFrom(IF j # ex[iat][k + 1] THEN add_excl_both(ex, j, ex[iat][k + 1]) ELSE ex,
                    iat, j, k + 1)

\* Lines 2030-2046
SpreadLoop_none(ex, rn, nr, i) == ex

RECURSIVE SpreadLoop(_, _, _, _)
SpreadLoop(ex, rn, nr, i) ==
    IF i >= nr THEN ex
    ELSE SpreadLoop(IF rn[i] + 1 < rn[i + 1] THEN SpreadFrom(ex, rn[i], rn[i] + 1, 0) ELSE ex,
                    rn, nr, i + 1)

\* Lines 2061-2073: every list but the polarization list is renumbered
RenumLists(pl, rn) ==
    [ft \in DOMAIN pl |->
        IF ft # "F_POLARIZATION"
        THEN [j \in DOMAIN pl[ft] |->
                [pl[ft][j] EXCEPT !.a = [k \in DOMAIN @ |->
                                            IF k <= NRAL(ft) THEN rn[@[k]] ELSE @[k]]]]
        ELSE pl[ft]]

\* MyMol::AddShells
AddShellsTo(p, at, x, ex, pl) ==
    LET nr == Cardinality(DOMAIN at)
        rn == renum(p, at)
        ns == rn[nr] - nr
        pol == ShellTerms(pl["F_POLARIZATION"], p, at, 0)
        pl1 == [pl EXCEPT !["F_POLARIZATION"] = pol]
        inv == [j \in 0..nr+ns-1 |-> IF \E i \in 0..nr-1 : rn[i] = j
                                     THEN CHOOSE i \in 0..nr-1 : rn[i] = j ELSE -1]
        a0 == [j \in 0..nr+ns-1 |-> IF inv[j] >= 0 THEN at[inv[j]] ELSE NewAtom]
        x0 == [j \in 0..nr+ns-1 |-> IF inv[j] >= 0 THEN x[inv[j]] ELSE <<0, 0>>]
        e0 == PolExcls([j \in 0..nr+ns-1 |-> <<>>], pol, 1)
        st == ParentLoop([atoms |-> a0, x |-> x0, excls |-> e0], at, x, ex, rn, 0)
        e2 == SpreadLoop(st.excls, rn, nr, 0)
    IN IF ns > 0
       THEN [atoms |-> st.atoms, x |-> st.x, excls |-> prune_excl(e2, st.atoms),
             plist |-> RenumLists(pl1, rn), ns |-> ns, renum |-> rn]
       ELSE [atoms |-> at, x |-> x, excls |-> ex, plist |-> pl1, ns |-> ns, renum |-> rn]

\* How often AddShells has been called
ShellPasses == Cardinality({k \in DOMAIN hist : hist[k].op = "shells"})

AddShells ==
    /\ pc = "idle"
    /\ pass >= 1
    /\ imm = "immOK"
    /\ ShellPasses < MaxShellPasses
    /\ LET r == AddShellsTo(pd, atoms, x_, excls_, plist_)
       IN /\ atoms' = r.atoms
          /\ x_' = r.x
          /\ excls_' = r.excls
          /\ plist_' = r.plist
          /\ hist' = Append(hist, [op |-> "shells", ns |-> r.ns, renum |-> r.renum,
                                   before |-> [atoms |-> atoms, x |-> x_, excls |-> excls_,
                                               plist |-> plist_],
                                   atoms |-> r.atoms, plist |-> r.plist, excls |-> r.excls])
    /\ UNCHANGED <<call, kernel, storage, cube, pc, pd, mol, args, pass, bts, nexcl_, gvt, mtop_, ltop_, imm, ran, ring, lin>>

GenerateTopology ==
    \/ GT_Begin
    \/ GT_Atoms
    \/ GT_Bonds
    \/ GT_MakeAngles
    \/ GT_Special
    \/ GT_Switches
    \/ GT_Remap
    \/ GT_Resolve
    \/ GT_Assemble
    \/ GT_Return

Next == GenerateTopology

Spec == Init /\ [][Next]_vars

----------------------------------------------------------------------------
(* detect_rings on its own *)

\* The loop over the bonds that looks for the atoms bonded to a
RingNbrs(bonds, a) ==
    {bonds[j].a[2] : j \in {k \in DOMAIN bonds : bonds[k].a[1] = a}} \cup
    {bonds[j].a[1] : j \in {k \in DOMAIN bonds : bonds[k].a[1] # a /\ bonds[k].a[2] = a}}

\* The walks a1, a2, .., ak the nested loops are in at depth k: no atom is
\* the one two steps back (tested from a3 on), and from a5 on a walk that
\* has come back to a1 is a ring and goes no further
RECURSIVE RingWalks(_, _, _)
RingWalks(bonds, a1, k) ==
    IF k = 2 THEN {<<a1, a2>> : a2 \in RingNbrs(bonds, a1)}
    ELSE UNION {{Append(w, b) : b \in {c \in RingNbrs(bonds, w[k - 1]) :
                                          c # w[k - 2] /\ (k >= 5 => c # a1)}} :
                w \in RingWalks(bonds, a1, k - 1)}

\* The atoms set TRUE as members of a ring of size L found from a1: the next
\* atom is a1; for the 8-ring the test against the atom two steps back is
\* not made
RingMarks(bonds, a1, L) ==
    UNION {Range(w) : w \in {v \in RingWalks(bonds, a1, L) :
                                 /\ a1 \in RingNbrs(bonds, v[L])
                                 /\ (L < 8 => a1 # v[L - 1])}}

\* detect_rings(bonds, natom, bRing)
detect_rings_upto7(bonds, natom) ==
    LET marked == UNION {RingMarks(bonds, a1, L) : a1 \in 0..natom-1, L \in 4..7}
    IN [j \in 0..natom-1 |-> j \in marked]

detect_rings(bonds, natom) ==
    LET marked == UNION {RingMarks(bonds, a1, L) : a1 \in 0..natom-1, L \in 4..8}
    IN [j \in 0..natom-1 |-> j \in marked]

\* Bond lists: a ring of L atoms 0..L-1, perhaps with one bond across it and
\* one atom hanging on it, and atoms without bonds behind them
RingBonds(L, chord, tail) ==
    [k \in 1..L |-> Param(<<k - 1, k % L>>, ZeroC)] \o
    (IF chord > 0 THEN <<Param(<<0, chord>>, ZeroC)>> ELSE <<>>) \o
    (IF tail THEN <<Param(<<L, 0>>, ZeroC)>> ELSE <<>>)

RingInputs ==
    {[bonds |-> RingBonds(t[1], t[2], t[3]),
      natom |-> t[1] + (IF t[3] THEN 1 ELSE 0) + t[4]] :
        t \in {u \in (3..MaxRing) \X {0, 2, 3} \X BOOLEAN \X (0..1) : u[2] <= u[1] - 2}}

\* Every set of bonds between at most MaxGraphAtoms atoms
Pairs(n) == {pr \in (0..n-1) \X (0..n-1) : pr[1] < pr[2]}

GraphInputs ==
    UNION {{[bonds |-> [k \in DOMAIN SortTuples(E) |-> Param(SortTuples(E)[k], ZeroC)],
             natom |-> n] : E \in SUBSET Pairs(n)} : n \in 1..MaxGraphAtoms}

InitRings ==
    /\ OthersIdle
    /\ Constructed
    /\ pd \in {Poldata("F_BONDS", "F_ANGLES", "F_PDIHS", "F_IDIHS", "none", NoPol)}
    /\ mol \in {Molecule(1, "loose", 1, TRUE, 1)}
    /\ args \in {a \in Arguments : a.nexcl = 1 /\ a.bPairs /\ a.edih = "edihAll"}
    /\ ring \in {[pc |-> "ready", natom |-> g.natom, bonds |-> g.bonds, bRing |-> NoAtoms] :
                    g \in RingInputs \cup GraphInputs}
    /\ lin = IdleLin

DetectRings ==
    /\ ring.pc = "ready"
    /\ ring' = [ring EXCEPT !.pc = "done", !.bRing = detect_rings(ring.bonds, ring.natom)]
    /\ UNCHANGED <<call, kernel, storage, cube, pc, pd, mol, args, pass, bts, nexcl_, atoms, x_, gvt, plist_, excls_,
                   mtop_, ltop_, imm, ran, hist, lin>>

NextRings == DetectRings

SpecRings == InitRings /\ [][NextRings]_vars

----------------------------------------------------------------------------
(* The linearity test of MakeSpecialInteractions on three atoms: atom 0 is  *)
(* bonded to atoms 1 and 2                                                  *)

Coords == (-MaxCoord..MaxCoord) \X (-MaxCoord..MaxCoord)

LinBonds == {<<(<<1, 2>>), (<<1, 3>>)>>, <<(<<1, 3>>), (<<2, 1>>)>>}

InitLinear ==
    /\ OthersIdle
    /\ Constructed
    /\ pd \in {Poldata("F_BONDS", "F_ANGLES", "F_PDIHS", "F_IDIHS", "none", NoPol)}
    /\ mol \in {Molecule(1, "loose", 1, TRUE, 1)}
    /\ args \in {a \in Arguments : a.nexcl = 1 /\ a.bPairs /\ a.edih = "edihAll"}
    /\ ring = IdleRing
    /\ lin \in {[pc |-> "ready", x |-> [i \in 0..2 |-> xs[i + 1]], bonds |-> b, linear |-> {}] :
                   xs \in {t \in Coords \X Coords \X Coords :
                               t[1] # t[2] /\ t[1] # t[3] /\ t[2] # t[3]},
                   b \in LinBonds}

\* The loop of lines 666-683 over the three atoms
ClassifyLinear ==
    /\ lin.pc = "ready"
    /\ lin' = [lin EXCEPT !.pc = "done", !.linear = LinearMotifs(lin.bonds, lin.x, 3)]
    /\ UNCHANGED <<call, kernel, storage, cube, pc, pd, mol, args, pass, bts, nexcl_, atoms, x_, gvt, plist_, excls_,
                   mtop_, ltop_, imm, ran, hist, ring>>

NextLinear == ClassifyLinear

SpecLinear == InitLinear /\ [][NextLinear]_vars

----------------------------------------------------------------------------
(* Generation followed by shell insertion, for force fields with           *)
(* polarizabilities                                                        *)

Polarizabilities ==
    {[at \in S |-> IF at = "C" THEN 1000 ELSE 2000] : S \in SUBSET ATypes}

InitShells ==
    /\ OthersIdle
    /\ Constructed
    /\ pd \in {Poldata(bft, "F_ANGLES", "F_PDIHS", "F_IDIHS", "none", pol) :
                  bft \in {"F_BONDS", "F_MORSE"}, pol \in Polarizabilities}
    /\ mol \in {Molecule(k[1], k[2], k[1], TRUE, qs) : k \in MolKeys, qs \in {1, 2}}
    /\ args \in {a \in Arguments : a.bPairs /\ a.edih = "edihAll"}
    /\ ring = IdleRing
    /\ lin = IdleLin

NextShells ==
    \/ GenerateTopology
    \/ AddShells

SpecShells == InitShells /\ [][NextShells]_vars

----------------------------------------------------------------------------
(* MyMol::PrintTopology: the sections of the topology file, in the order   *)
(* they are written                                                        *)

\* The number of a functional type among the types modelled here; F_BONDS
\* is 0 as in the F_ enumeration
FTypeNumber(ft) == CHOOSE i \in 0..(Len(FTypeOrder) - 1) : FTypeOrder[i + 1] = ft

\* print_bondeds2(out, d, ftype, subtype, p): nothing for an empty list (the
\* lists of the types not modelled here are empty), else the directive and
\* one row per term: the atoms counted from 1, 1+subtype, the coefficients
print_bondeds2(d, ftype, subtype, p) ==
    IF ftype \notin DOMAIN p THEN <<>>
    ELSE IF Len(p[ftype]) = 0 THEN <<>>
    ELSE <<[dir |-> d,
            rows |-> [i \in DOMAIN p[ftype] |->
                        [a |-> [j \in 1..NRAL(ftype) |-> 1 + p[ftype][i].a[j]],
                         type |-> 1 + subtype,
                         c |-> [j \in 0..(NRFPA(ftype) - 1) |-> p[ftype][i].c[j]]]]]>>

\* print_atoms: one row per atom, counted from 1
print_atoms(at) ==
    <<[dir |-> "atoms",
       rows |-> [i \in 1..Cardinality(DOMAIN at) |->
                   [nr |-> i, type |-> at[i - 1].atype, q |-> at[i - 1].q, m |-> at[i - 1].m]]]>>

\* print_excl: the atoms that have exclusions, each with its list, counted
\* from 1
print_excl(nr, ex) ==
    LET have == SortedSeq({i \in 0..nr-1 : Len(ex[i]) > 0})
    IN IF have = <<>> THEN <<>>
       ELSE <<[dir |-> "exclusions",
               rows |-> [k \in DOMAIN have |->
                           [a |-> <<1 + have[k]>> \o
                                  [j \in DOMAIN ex[have[k]] |-> 1 + ex[have[k]][j]]]]]>>

\* write_top2: nothing unless the atoms, the atom types and the charge
\* group numbers exist
write_top2(at, b, pl, ex, cgnr, nrexcl) ==
    IF ~cgnr THEN <<>>
    ELSE <<[dir |-> "moleculetype", rows |-> <<[nrexcl |-> nrexcl]>>]>> \o
         print_atoms(at) \o
         print_bondeds2("bonds", "F_MORSE", FTypeNumber(b["ebtsBONDS"]), pl) \o
         print_bondeds2("constraints", "F_CONSTR", 0, pl) \o
         print_bondeds2("constraints", "F_CONSTRNC", 0, pl) \o
         print_bondeds2("pairs", "F_LJ14", 0, pl) \o
         print_excl(Cardinality(DOMAIN at), ex) \o
         print_bondeds2("angles", b["ebtsANGLES"], 0, pl) \o
         print_bondeds2("dihedrals", b["ebtsPDIHS"], 0, pl) \o
         print_bondeds2("dihedrals", b["ebtsIDIHS"], 0, pl) \o
         print_bondeds2("cmap", b["ebtsCMAP"], 0, pl) \o
         print_bondeds2("polarization", "F_POLARIZATION", 0, pl) \o
         print_bondeds2("thole_polarization", "F_THOLE_POL", 0, pl) \o
         print_bondeds2("virtual_sites2", "F_VSITE2", 0, pl) \o
         print_bondeds2("virtual_sites3", "F_VSITE3", 0, pl) \o
         print_bondeds2("virtual_sites3", "F_VSITE3FD", 0, pl) \o
         print_bondeds2("virtual_sites3", "F_VSITE3FAD", 0, pl) \o
         print_bondeds2("virtual_sites3", "F_VSITE3OUT", 0, pl) \o
         print_bondeds2("virtual_sites4", "F_VSITE4FD", 0, pl) \o
         print_bondeds2("virtual_sites4", "F_VSITE4FDN", 0, pl)

\* How often PrintTopology has written a file
Prints == Cardinality({k \in DOMAIN hist : hist[k].op = "print"})

\* Lines 1728-1768: gmx_fatal when no directive number is found for one of
\* the four types, which is so when the type is not set
Bts2Missing(b) ==
    \E n \in {"ebtsBONDS", "ebtsANGLES", "ebtsPDIHS", "ebtsIDIHS"} : b[n] = FTypeNotSet

\* MyMol::PrintTopology; cgnr tells whether GenerateChargeGroups has set
\* cgnr_ before
PrintTopology ==
    /\ pc = "idle"
    /\ pass = 0 \/ imm = "immOK"
    /\ Prints < MaxPrints
    /\ IF Bts2Missing(bts)
       THEN /\ pc' = "fatal"
            /\ UNCHANGED hist
       ELSE /\ \E cgnr \in BOOLEAN :
                 hist' = Append(hist, [op |-> "print", cgnr |-> cgnr, plist |-> plist_,
                                       out |-> write_top2(atoms, bts, plist_, excls_, cgnr,
                                                          nexcl_)])
            /\ UNCHANGED pc
    /\ UNCHANGED <<call, kernel, storage, cube, pd, mol, args, pass, bts, nexcl_, atoms, x_, gvt, plist_, excls_, mtop_,
                   ltop_, imm, ran, ring, lin>>

\* Force fields with each bond and angle type, molecules with complete data
InitPrint ==
    /\ OthersIdle
    /\ Constructed
    /\ pd \in {Poldata(bft, aft, "F_PDIHS", "F_IDIHS", "none", NoPol) :
                  bft \in {"F_BONDS", "F_MORSE"}, aft \in {"F_ANGLES", "F_UREY_BRADLEY"}}
    /\ mol \in {Molecule(k[1], k[2], k[1], TRUE, 1) : k \in MolKeys}
    /\ args \in Arguments
    /\ ring = IdleRing
    /\ lin = IdleLin

NextPrint ==
    \/ GenerateTopology
    \/ PrintTopology

SpecPrint == InitPrint /\ [][NextPrint]_vars

----------------------------------------------------------------------------
(* MyMol::AddShells as a function of the atom array it finds: arrays with   *)
(* shells at any place, the first included                                  *)

MaxInputAtoms == 3

\* Atom arrays of 1..MaxInputAtoms particles, each a real atom or a shell
ShellInputAtoms ==
    UNION {{[i \in 0..n-1 |->
               IF i \in S
               THEN [atype |-> ShellTypeName(IF i % 2 = 0 THEN "C" ELSE "H"), q |-> 0 - 1,
                     qB |-> 0 - 1, m |-> 0, mB |-> 0, ptype |-> "eptShell"]
               ELSE [atype |-> IF i % 2 = 0 THEN "C" ELSE "H", q |-> 1, qB |-> 1,
                     m |-> 12, mB |-> 12, ptype |-> "eptAtom"]] : S \in SUBSET (0..n-1)}
           : n \in 1..MaxInputAtoms}

\* No exclusions, or those of neighbours in the array
ShellInputExcls(n) ==
    {[i \in 0..n-1 |-> <<>>],
     [i \in 0..n-1 |-> SortedSeq({j \in 0..n-1 : j = i - 1 \/ j = i + 1})]}

InitShellInputs ==
    /\ OthersIdle
    /\ pc = "idle"
    /\ pass = 1
    /\ bts = [b \in BtsNames |-> FTypeNotSet]
    /\ nexcl_ = 1
    /\ atoms \in ShellInputAtoms
    /\ x_ = [i \in DOMAIN atoms |-> <<i, 0>>]
    /\ gvt = [linear |-> {}, planar |-> {}]
    /\ plist_ = init_plist
    /\ excls_ \in ShellInputExcls(Cardinality(DOMAIN atoms))
    /\ mtop_ = NullTop
    /\ ltop_ = "NULL"
    /\ imm = "immOK"
    /\ ran = <<>>
    /\ hist = <<>>
    /\ pd \in {Poldata("F_BONDS", "F_ANGLES", "F_PDIHS", "F_IDIHS", "none", pol) :
                  pol \in Polarizabilities}
    /\ mol = Molecule(1, "chain", 1, TRUE, 1)
    /\ args \in {a \in Arguments : a.bPairs /\ a.edih = "edihAll" /\ a.nexcl = 1}
    /\ ring = IdleRing
    /\ lin = IdleLin

NextShellInputs == AddShells

SpecShellInputs == InitShellInputs /\ [][NextShellInputs]_vars

----------------------------------------------------------------------------
(* One term of get_force_constants with parameter strings of any length:   *)
(* the coefficient array c[MAXFORCEPARAM] and the memory that follows it    *)

MaxTokens == 13
MaxBehind == 2

DigitChars == <<"0", "1", "2", "3", "4", "5", "6", "7", "8", "9">>

\* The i-th number of a parameter string is i, written in decimal
TokenOf(i) ==
    IF i < 10 THEN <<DigitChars[i + 1]>>
    ELSE <<DigitChars[(i \div 10) + 1], DigitChars[(i % 10) + 1]>>

\* The numbers i..k with one space between them and a second space behind
\* the g-th
RECURSIVE JoinFrom(_, _, _)
JoinFrom(i, k, g) ==
    IF i > k THEN <<>>
    ELSE TokenOf(i) \o (IF i < k THEN <<SP>> ELSE <<>>) \o (IF i = g THEN <<SP>> ELSE <<>>)
         \o JoinFrom(i + 1, k, g)

ParamStrings ==
    {(IF lead THEN <<SP>> ELSE <<>>) \o JoinFrom(1, kg[1], kg[2]) \o
        (IF trail THEN <<SP>> ELSE <<>>) :
        kg \in {q \in (0..MaxTokens) \X (0..MaxTokens) : q[2] <= q[1]},
        lead \in BOOLEAN, trail \in BOOLEAN}

InitTokens ==
    /\ Constructed
    /\ pd \in {Poldata("F_BONDS", "F_ANGLES", "F_PDIHS", "F_IDIHS", "none", NoPol)}
    /\ mol \in {Molecule(1, "loose", 1, TRUE, 1)}
    /\ args \in {a \in Arguments : a.nexcl = 1 /\ a.bPairs /\ a.edih = "edihAll"}
    /\ ring = IdleRing
    /\ lin = IdleLin
    /\ kernel = IdleKernel
    /\ storage = IdleStorage
    /\ cube = IdleCube
    /\ call \in [pc : {"ready"}, found : BOOLEAN, xx : {7}, params : ParamStrings,
                 c : {[l \in 0..(MAXFORCEPARAM + MaxBehind - 1) |-> NOTSET]}]

\* Lines 274-290 for one term: the lookup's answer, then slot 0 and the loop
\* over the pieces of the string
ResolveTerm ==
    /\ call.pc = "ready"
    /\ call' = [call EXCEPT
                  !.pc = "done",
                  !.c = SetConstants(Param(<<0, 1>>, call.c),
                                     [found |-> call.found, params |-> call.params],
                                     call.xx).c]
    /\ UNCHANGED <<pc, pd, mol, args, pass, bts, nexcl_, atoms, x_, gvt, plist_, excls_,
                   mtop_, ltop_, imm, ran, hist, ring, lin, kernel, storage, cube>>

NextTokens == ResolveTerm

SpecTokens == InitTokens /\ [][NextTokens]_vars

----------------------------------------------------------------------------
(* nb_kernel330_ppc_altivec and nb_kernel330nf_ppc_altivec built with       *)
(* GMX_THREAD_SHM_FDECOMP: the threads take chunks of the outer loop from   *)
(* the shared counter *count under the mutex mtx                            *)

MaxNri == 6
MaxThreads == 3

\* The variables of the MyMol object, which the other components leave alone
MyMolVars ==
    <<pc, pd, mol, args, pass, bts, nexcl_, atoms, x_, gvt, plist_, excls_, mtop_, ltop_,
      imm, ran, hist, ring, lin>>

\* The MyMol object while another component runs
MyMolIdle ==
    /\ Constructed
    /\ pd \in {Poldata("F_BONDS", "F_ANGLES", "F_PDIHS", "F_IDIHS", "none", NoPol)}
    /\ mol \in {Molecule(1, "loose", 1, TRUE, 1)}
    /\ args \in {a \in Arguments : a.nexcl = 1 /\ a.bPairs /\ a.edih = "edihAll"}
    /\ ring = IdleRing
    /\ lin = IdleLin

\* Integer division of C: the quotient is cut towards zero
CDiv(a, b) == IF a >= 0 THEN a \div b ELSE 0 - ((0 - a) \div b)

\* Line 96
NextChunkEnd(nn0, nri, nthreads) == nn0 + CDiv(nri - nn0, 2 * nthreads) + 3

\* Line 99: if(nn1>nri) nn1=nri
ClampEnd_none(nn1, nri) == nn1

ClampEnd(nn1, nri) == IF nn1 > nri THEN nri ELSE nn1

\* A thread at the top of the kernel: nouter = 0 (lines 84-85)
ThreadStart == [pc |-> "lock", nn0 |-> 0, nn1 |-> 0, n |-> 0, nouter |-> 0, outeriter |-> 0]

InitKernel ==
    /\ MyMolIdle
    /\ call = IdleCall
    /\ storage = IdleStorage
    /\ cube = IdleCube
    /\ kernel \in {[pc |-> "run", nri |-> nri, nthreads |-> nt, count |-> 0, mtx |-> 0,
                    th |-> [t \in 1..nt |-> ThreadStart],
                    hits |-> [n \in {} |-> 0],
                    own |-> [t \in 1..nt |-> 0]] :
                       nri \in 0..MaxNri, nt \in 1..MaxThreads}

KernelThreads == IF kernel.pc = "run" THEN 1..kernel.nthreads ELSE {}

KernelFrame == UNCHANGED <<MyMolVars, call, storage, cube>>

\* Line 94: gmx_thread_mutex_lock
K_Lock ==
    /\ \E t \in KernelThreads :
          /\ kernel.th[t].pc = "lock"
          /\ kernel.mtx = 0
          /\ kernel' = [kernel EXCEPT !.mtx = t, !.th[t].pc = "read"]
    /\ KernelFrame

\* Lines 95-96: nn0 = *count and nn1
K_Read ==
    /\ \E t \in KernelThreads :
          /\ kernel.th[t].pc = "read"
          /\ kernel' = [kernel EXCEPT
                          !.th[t].pc = "write",
                          !.th[t].nn0 = kernel.count,
                          !.th[t].nn1 = NextChunkEnd(kernel.count, kernel.nri, kernel.nthreads)]
    /\ KernelFrame

\* Line 97: *count = nn1
K_Write ==
    /\ \E t \in KernelThreads :
          /\ kernel.th[t].pc = "write"
          /\ kernel' = [kernel EXCEPT !.th[t].pc = "unlock", !.count = kernel.th[t].nn1]
    /\ KernelFrame

\* Line 98: gmx_thread_mutex_unlock
K_Unlock ==
    /\ \E t \in KernelThreads :
          /\ kernel.th[t].pc = "unlock"
          /\ kernel' = [kernel EXCEPT !.mtx = 0, !.th[t].pc = "clamp"]
    /\ KernelFrame

\* Lines 99-100: the end of the chunk is cut to nri and n starts at nn0
K_Clamp ==
    /\ \E t \in KernelThreads :
          /\ kernel.th[t].pc = "clamp"
          /\ kernel' = [kernel EXCEPT
                          !.th[t].pc = "loop",
                          !.th[t].nn1 = ClampEnd(kernel.th[t].nn1, kernel.nri),
                          !.th[t].n = kernel.th[t].nn0]
    /\ KernelFrame

\* Lines 100-262: one pass of the outer loop works on the entry n of the
\* neighbour list, or the loop ends
K_Outer ==
    /\ \E t \in KernelThreads :
          /\ kernel.th[t].pc = "loop"
          /\ LET n == kernel.th[t].n
             IN IF n < kernel.th[t].nn1
                THEN kernel' = [kernel EXCEPT
                                  !.th[t].n = n + 1,
                                  !.own[t] = @ + 1,
                                  !.hits = IF n \in DOMAIN kernel.hits
                                           THEN [kernel.hits EXCEPT ![n] = @ + 1]
                                           ELSE [m \in DOMAIN kernel.hits \cup {n} |->
                                                    IF m = n THEN 1 ELSE kernel.hits[m]]]
                ELSE kernel' = [kernel EXCEPT !.th[t].pc = "accum"]
    /\ KernelFrame

\* Lines 263-264: nouter += nn1 - nn0 and the test of the do loop
K_Accum ==
    /\ \E t \in KernelThreads :
          /\ kernel.th[t].pc = "accum"
          /\ kernel' = [kernel EXCEPT
                          !.th[t].nouter = @ + kernel.th[t].nn1 - kernel.th[t].nn0,
                          !.th[t].pc = IF kernel.th[t].nn1 < kernel.nri THEN "lock" ELSE "ret"]
    /\ KernelFrame

\* Line 268: *outeriter = nouter
K_Return ==
    /\ \E t \in KernelThreads :
          /\ kernel.th[t].pc = "ret"
          /\ kernel' = [kernel EXCEPT !.th[t].pc = "done",
                                      !.th[t].outeriter = kernel.th[t].nouter]
    /\ KernelFrame

NextKernel ==
    \/ K_Lock
    \/ K_Read
    \/ K_Write
    \/ K_Unlock
    \/ K_Clamp
    \/ K_Outer
    \/ K_Accum
    \/ K_Return

SpecKernel == InitKernel /\ [][NextKernel]_vars

----------------------------------------------------------------------------
(* SelectionOptionStorage (src/unnamed/part_001): addSelections and         *)
(* setSelectionFlag on one option.  The selections are objects of the       *)
(* selection collection; the option holds pointers to them.                 *)

MaxStorageCalls == 3
MaxSelections == 3
MaxPassed == 2

SelectionFlags == {"efOnlyStatic", "efOnlyAtoms"}

\* Selection::isDynamic: the selections with an even number are dynamic
isDynamic(s) == s % 2 = 0

\* The lists a caller passes: up to MaxPassed different selections
PassedLists ==
    {s \in UNION {[1..n -> 1..MaxSelections] : n \in 0..MaxPassed} :
        \A i, j \in DOMAIN s : i # j => s[i] # s[j]}

\* The storage template's clearSet, addValue and commitValues are not among
\* the sources at hand: values added since the last clearSet are kept in a
\* set of their own and commitValues puts them behind the stored values
clearSet(st) == [st EXCEPT !.setValues = <<>>]

addValue(st, s) == [st EXCEPT !.setValues = Append(@, s)]

commitValues(st) == [st EXCEPT !.values = @ \o st.setValues, !.setValues = <<>>]

\* The loop of lines 96-105 from the i-th selection on
RECURSIVE AddLoop(_, _, _)
AddLoop(st, selections, i) ==
    IF i > Len(selections) THEN st
    ELSE IF "efOnlyStatic" \in st.flags /\ isDynamic(selections[i])
         THEN [st EXCEPT !.thrown = TRUE]
         ELSE AddLoop(addValue([st EXCEPT !.selFlags[selections[i]] = st.flags],
                               selections[i]),
                      selections, i + 1)

\* SelectionOptionStorage::addSelections
addSelections(st, selections, bFullValue) ==
    IF bFullValue /\ Len(selections) < st.minValueCount
    THEN [st EXCEPT !.thrown = TRUE]
    ELSE LET r == AddLoop(IF bFullValue THEN clearSet(st) ELSE st, selections, 1)
         IN IF ~r.thrown /\ bFullValue THEN commitValues(r) ELSE r

\* The loop of lines 173-185 from the i-th stored value on
RECURSIVE FlagLoop(_, _)
FlagLoop(st, i) ==
    IF i > Len(st.values) THEN st
    ELSE IF "efOnlyStatic" \in st.flags /\ isDynamic(st.values[i])
         THEN [st EXCEPT !.thrown = TRUE]
         ELSE FlagLoop([st EXCEPT !.selFlags[st.values[i]] = st.flags], i + 1)

\* SelectionOptionStorage::setSelectionFlag
setSelectionFlag(st, flag, bSet) ==
    FlagLoop([st EXCEPT !.flags = IF bSet THEN @ \cup {flag} ELSE @ \ {flag}], 1)

\* The constructor, lines 63-73: no values, the flags of the settings
InitStorage ==
    /\ MyMolIdle
    /\ call = IdleCall
    /\ kernel = IdleKernel
    /\ cube = IdleCube
    /\ storage \in [pc : {"run"}, flags : SUBSET SelectionFlags, minValueCount : {1, 2},
                    values : {<<>>}, setValues : {<<>>},
                    selFlags : {[s \in 1..MaxSelections |-> {}]},
                    thrown : {FALSE}, calls : {0}, op : {"new"},
                    passed : {<<>>}, before : {<<>>}]

\* What a call finds, kept for comparison
StorageSeen ==
    <<[values |-> storage.values, setValues |-> storage.setValues,
       selFlags |-> storage.selFlags, flags |-> storage.flags]>>

AddSelections ==
    /\ storage.pc = "run"
    /\ storage.calls < MaxStorageCalls
    /\ \E selections \in PassedLists, bFullValue \in BOOLEAN :
          storage' = [addSelections([storage EXCEPT !.thrown = FALSE], selections, bFullValue)
                         EXCEPT !.calls = @ + 1, !.op = "addSelections",
                                !.passed = selections, !.before = StorageSeen]
    /\ UNCHANGED <<MyMolVars, call, kernel, cube>>

SetSelectionFlag ==
    /\ storage.pc = "run"
    /\ storage.calls < MaxStorageCalls
    /\ \E flag \in SelectionFlags, bSet \in BOOLEAN :
          storage' = [setSelectionFlag([storage EXCEPT !.thrown = FALSE], flag, bSet)
                         EXCEPT !.calls = @ + 1, !.op = "setSelectionFlag",
                                !.passed = <<>>, !.before = StorageSeen]
    /\ UNCHANGED <<MyMolVars, call, kernel, cube>>

NextStorage ==
    \/ AddSelections
    \/ SetSelectionFlag

SpecStorage == InitStorage /\ [][NextStorage]_vars

----------------------------------------------------------------------------
(* MyMol::GenerateCube: the life of grref, the copy of gr_.  A file name    *)
(* is TRUE when the pointer is not NULL.                                    *)

CubeFileNames == {"reffn", "potfn", "rhofn", "hisfn", "difffn", "diffhistfn"}

\* A call of a gmx_resp function on grref: on a destroyed object it is
\* counted as a use after destruction
UseGrref(c) == IF c.grref = "live" THEN c ELSE [c EXCEPT !.misuse = @ + 1]

\* gmx_resp_destroy(grref)
DestroyGrref(c) ==
    [c EXCEPT !.grref = "destroyed", !.destroys = @ + 1,
              !.misuse = IF c.grref = "live" THEN @ ELSE @ + 1]

InitCube ==
    /\ MyMolIdle
    /\ call = IdleCall
    /\ kernel = IdleKernel
    /\ storage = IdleStorage
    /\ cube \in [pc : {"entry"}, gr_ : BOOLEAN, fn : [CubeFileNames -> BOOLEAN],
                 grref : {"unset"}, destroys : {0}, misuse : {0}]

CubeFrame == UNCHANGED <<MyMolVars, call, kernel, storage>>

\* Lines 2115-2120: without gr_ nothing is done, else the copy is made
GC_Copy ==
    /\ cube.pc = "entry"
    /\ cube' = IF cube.gr_
               THEN [cube EXCEPT !.grref = "live", !.pc = "files"]
               ELSE [cube EXCEPT !.pc = "done"]
    /\ CubeFrame

\* Lines 2121-2158: the test of the file names, the grid (from the reference
\* cube through grref when difffn is given), density, potential, histogram
GC_Grid ==
    /\ cube.pc = "files"
    /\ cube' = IF cube.fn["potfn"] \/ cube.fn["hisfn"] \/ cube.fn["rhofn"] \/
                  (cube.fn["difffn"] /\ cube.fn["reffn"])
               THEN [(IF cube.fn["difffn"] THEN UseGrref(cube) ELSE cube) EXCEPT !.pc = "diff"]
               ELSE [cube EXCEPT !.pc = "end"]
    /\ CubeFrame

\* Lines 2159-2166: the difference cube is written from grref, which is
\* destroyed behind it
GC_Diff ==
    /\ cube.pc = "diff"
    /\ cube' = IF cube.fn["difffn"] \/ cube.fn["diffhistfn"]
               THEN [DestroyGrref(UseGrref(cube)) EXCEPT !.pc = "end"]
               ELSE [cube EXCEPT !.pc = "end"]
    /\ CubeFrame

\* Line 2168: gmx_resp_destroy(grref).  On an object that was destroyed
\* before, the call may return or end the program.
GC_Destroy ==
    /\ cube.pc = "end"
    /\ \E outcome \in (IF cube.grref = "live" THEN {"done"} ELSE {"done", "crashed"}) :
          cube' = [DestroyGrref(cube) EXCEPT !.pc = outcome]
    /\ CubeFrame

NextCube ==
    \/ GC_Copy
    \/ GC_Grid
    \/ GC_Diff
    \/ GC_Destroy

SpecCube == InitCube /\ [][NextCube]_vars

----------------------------------------------------------------------------
(* GenerateTopology with a force field whose bond type has no coefficients  *)
(* (F_CONNBONDS), for the size of the parameter table                       *)

InitCapacity ==
    /\ Constructed
    /\ OthersIdle
    /\ pd \in {Poldata(bft, "F_ANGLES", "F_PDIHS", "F_IDIHS", "none", NoPol) :
                  bft \in {"F_MORSE", "F_CONNBONDS"}}
    /\ mol \in {Molecule(k[1], k[2], k[1], TRUE, 1) : k \in MolKeys}
    /\ args \in Arguments
    /\ ring = IdleRing
    /\ lin = IdleLin

NextCapacity == GenerateTopology

SpecCapacity == InitCapacity /\ [][NextCapacity]_vars

----------------------------------------------------------------------------
(* Properties *)

ExclSymmetric(ex) ==
    \A i \in DOMAIN ex : \A k \in DOMAIN ex[i] :
        ex[i][k] \in DOMAIN ex /\ i \in Range(ex[ex[i][k]])

\* C1: the exclusion lists are symmetric after MakeAngles and after
\* AddShells with its pruning pass: j is in the list of i exactly when i is
\* in the list of j.
C1_ExclusionsSymmetric == ExclSymmetric(excls_)

\* Shells were inserted into a topology whose atoms excluded one another,
\* and a shell excludes several atoms
C1_Witness ==
    /\ HasShells(atoms)
    /\ \E i \in DOMAIN atoms : atoms[i].ptype = "eptShell" /\ Len(excls_[i]) >= 3
    /\ \E k \in DOMAIN hist :
          /\ hist[k].op = "shells"
          /\ hist[k].ns >= 2
          /\ \E i \in DOMAIN hist[k].before.excls : Len(hist[k].before.excls[i]) >= 2

\* The handle plist_to_mtop stored for the j-th term of a list
HandleOf(top, ft, j) == top.ilist[ft][(j - 1) * (1 + NRAL(ft)) + 1]

\* C2: after plist_to_mtop the parameter table holds no two entries of the
\* same functional type with the same coefficients, and two terms of one
\* type with the same coefficients have the same handle.
C2_TableDeduplicated ==
    (pc = "return" /\ ~mtop_.null /\ imm = "immOK") =>
        LET top == mtop_.top
            ff == top.ffparams
        IN /\ \A g, h \in DOMAIN ff :
                 (ff[g].ft = ff[h].ft /\ ff[g].c = ff[h].c) => g = h
           /\ \A ft \in FTypes : \A i, j \in DOMAIN plist_[ft] :
                 TermCoefs(top, pd, ft, plist_[ft][i]) = TermCoefs(top, pd, ft, plist_[ft][j])
                    => HandleOf(top, ft, i) = HandleOf(top, ft, j)

\* C3: when the store has no match for the bond types of a generated bond,
\* angle or dihedral, GenerateTopology does not end with immOK and no
\* topology is assembled.
C3_LookupFailureAborts ==
    (pc = "return" /\ ~AllResolved(pd, plist_, atoms)) =>
        (imm # "immOK" /\ mtop_.null /\ ltop_ = "NULL")

\* C4: every shell has mass 0 and charge 0, in state A and in state B.
C4_ShellsMasslessChargeless ==
    \A i \in DOMAIN atoms :
        atoms[i].ptype = "eptShell" =>
            atoms[i].m = 0 /\ atoms[i].mB = 0 /\ atoms[i].q = 0 /\ atoms[i].qB = 0

\* The calls of AddShells on a molecule that had no shells
FirstInsertions ==
    {k \in DOMAIN hist :
        /\ hist[k].op = "shells"
        /\ ~HasShells(hist[k].before.atoms)
        /\ hist[k].before.plist["F_POLARIZATION"] = <<>>}

RealAtoms(at) == SortedSeq({j \in DOMAIN at : at[j].ptype # "eptShell"})

PolAtoms(at) == SortedSeq({i \in DOMAIN at : at[i].atype \in DOMAIN pd.pol})

LaterStages == {"angles", "special", "switches", "remap", "resolve", "assemble"}

\* C6: no atoms in the composition gives immAtomTypes, no calculation at the
\* level of theory gives immLOT, no bonds gives immGenBonds, and a call
\* that returns another status than immOK has run none of the later stages
\* and leaves mtop_ and ltop_ unset.
C6_ContentErrorsReturned ==
    pc = "return" =>
        /\ (mol.comp <= 0 => imm = "immAtomTypes")
        /\ (mol.comp > 0 /\ ~mol.lot => imm = "immLOT")
        /\ (mol.comp > 0 /\ mol.lot /\ Len(mol.bonds) = 0 => imm = "immGenBonds")
        /\ (imm # "immOK" =>
              /\ Range(ran) \cap LaterStages = {}
              /\ mtop_.null
              /\ ltop_ = "NULL")

\* The second call on a molecule without bonds is about to return
C6_Witness ==
    /\ pc = "return"
    /\ pass = 2
    /\ imm = "immGenBonds"
    /\ ran = <<"atoms", "bonds">>

\* C7: with a functional type not set for bonds, angles, proper or improper
\* dihedrals, GenerateTopology ends in gmx_fatal before an atom, a bond or a
\* list of the molecule exists, and never returns.
C7_UnsetTypeIsFatal ==
    FTypeNotSet \in {pd.bond_ftype, pd.angle_ftype, pd.pdih_ftype, pd.idih_ftype} =>
        /\ pc \in {"idle", "fatal"}
        /\ (pass > 0 => pc = "fatal")
        /\ atoms = NoAtoms
        /\ x_ = NoAtoms
        /\ plist_ = init_plist
        /\ excls_ = NoAtoms
        /\ mtop_.null
        /\ ltop_ = "NULL"
        /\ \A k \in DOMAIN hist : hist[k].op # "end"

\* The call ended in gmx_fatal because only the improper type is not set
C7_Witness ==
    /\ pc = "fatal"
    /\ pd.idih_ftype = FTypeNotSet
    /\ pd.bond_ftype # FTypeNotSet
    /\ pd.angle_ftype # FTypeNotSet
    /\ pd.pdih_ftype # FTypeNotSet

\* C8: a second GenerateTopology on the same object leaves the interaction
\* lists and the exclusions as the first call left them, in content and
\* order.
C8_SecondPassIdentical ==
    \A k, l \in DOMAIN hist :
        (k < l /\ hist[k].op = "end" /\ hist[l].op = "end"
           /\ hist[k].imm = "immOK" /\ hist[l].imm = "immOK") =>
            (hist[l].plist = hist[k].plist /\ hist[l].excls = hist[k].excls)

\* The atoms bonded to a, for the ring properties
Adjacent(bonds, a) ==
    {b \in UNION {Range(bonds[k].a) : k \in DOMAIN bonds} :
        b # a /\ \E k \in DOMAIN bonds : Range(bonds[k].a) = {a, b}}

\* The paths of k different atoms that start at a
RECURSIVE SimplePaths(_, _, _)
SimplePaths(bonds, a, k) ==
    IF k = 1 THEN {<<a>>}
    ELSE UNION {{Append(w, b) : b \in Adjacent(bonds, w[k - 1]) \ Range(w)} :
                w \in SimplePaths(bonds, a, k - 1)}

OnSimpleCycle(bonds, a) ==
    \E L \in 4..8 : \E w \in SimplePaths(bonds, a, L) : a \in Adjacent(bonds, w[L])

\* C9: detect_rings marks every atom on a simple cycle of 4 to 8 bonds and
\* no atom without bonds; of six atoms in a ring and a seventh without
\* bonds exactly the six are marked.
C9_RingAtomsMarked ==
    ring.pc = "done" =>
        /\ \A j \in 0..ring.natom-1 :
              /\ OnSimpleCycle(ring.bonds, j) => ring.bRing[j]
              /\ Adjacent(ring.bonds, j) = {} => ~ring.bRing[j]
        /\ (ring.natom = 7 /\ ring.bonds = RingBonds(6, 0, FALSE)) =>
              \A j \in 0..6 : ring.bRing[j] <=> j < 6

\* The ring of six atoms with a seventh atom without bonds
C9_Witness ==
    /\ ring.pc = "done"
    /\ ring.natom = 7
    /\ ring.bonds = RingBonds(6, 0, FALSE)
    /\ \A j \in 0..5 : ring.bRing[j]
    /\ ~ring.bRing[6]

\* The angle xa-xc-xb at xc is 180 - th_toler degrees or more
StraightAt(xc, xa, xb) ==
    LET d == Dot(Sub(xa, xc), Sub(xb, xc))
        n == Dot(Sub(xa, xc), Sub(xa, xc)) * Dot(Sub(xb, xc), Sub(xb, xc))
    IN d < 0 /\ d * d * CosSqToler.den >= CosSqToler.num * n

\* C10: the atom with two bonded neighbours is registered as linear exactly
\* when the angle at that atom between its neighbours is within th_toler of
\* 180 degrees.
C10_LinearIffStraight ==
    lin.pc = "done" =>
        ((\E m \in lin.linear : m[2] = 0) <=> StraightAt(lin.x[0], lin.x[1], lin.x[2]))

\* The number of atoms bonded to atom i in a bond list
NeighbourCount(list, i) ==
    Cardinality({j \in UNION {Range(list[b].a) : b \in DOMAIN list} :
                    j # i /\ \E b \in DOMAIN list : Range(list[b].a) = {i, j}})

\* C(k,2)
Choose2(k) == (k * (k - 1)) \div 2

\* The sum over the atoms of C(k,2), k the atom's number of neighbours
AnglesExpected(list, nr) ==
    SumSeq([i \in 1..nr |-> Choose2(NeighbourCount(list, i - 1))])

ListsOfCall(p, ml, pl0, g0, nexcl, bPairs, edih) ==
    LET b == [pl0 EXCEPT !["F_BONDS"] = StoreBonds(@, ml.bonds)]
        ma == MakeAngles(b, ml.n, nexcl)
        sp == MakeSpecialInteractions(ma.plist, g0, ml.bonds, ml.x, ml.n)
        mv == mv_plists(p, PolicySwitches(sp.plist, bPairs, edih), TRUE).plist
    IN [plist |-> get_force_constants(p, mv, GenerateAtoms(ml).atoms),
        excls |-> ma.excls]

\* C12: with bPairs off the lists and the assembled topology hold no 1-4
\* pair, with edihNo the force field's proper-dihedral list holds no
\* generated proper dihedral (and is empty in the topology unless the
\* improper dihedrals share its type), and in both cases the bond, angle and
\* improper-dihedral lists and the exclusions are those the same call
\* produces with both switches on.
C12_SwitchesOnlyEmptyTheirList ==
    (pc = "return" /\ imm = "immOK") =>
        LET ref == ListsOfCall(pd, mol, hist[Len(hist)].plist, gvt, nexcl_, TRUE, "edihAll")
            top == mtop_.top
            nr == Cardinality(DOMAIN atoms)
        IN /\ ~args.bPairs => (plist_["F_LJ14"] = <<>> /\ top.ilist["F_LJ14"] = <<>>)
           /\ args.edih = "edihNo" =>
                 /\ \A j \in DOMAIN plist_[pd.pdih_ftype] :
                       plist_[pd.pdih_ftype][j].a \notin DihedralTuples(plist_, nr)
                 /\ pd.pdih_ftype # pd.idih_ftype => top.ilist[pd.pdih_ftype] = <<>>
           /\ \A ft \in {pd.bond_ftype, pd.angle_ftype, pd.idih_ftype} :
                 plist_[ft] = ref.plist[ft]
           /\ excls_ = ref.excls
           /\ top.excls = excls__to_blocka(nr, ref.excls)

\* Both switches are off for the chain of four atoms, which has a proper
\* dihedral and a 1-4 pair when they are on
C12_Witness ==
    /\ pc = "return"
    /\ imm = "immOK"
    /\ ~args.bPairs
    /\ args.edih = "edihNo"
    /\ mol.bonds = ShapeBonds(4, "chain")
    /\ LET ref == ListsOfCall(pd, mol, hist[Len(hist)].plist, gvt, nexcl_, TRUE, "edihAll")
       IN /\ ref.plist[pd.pdih_ftype] # <<>>
          /\ ref.plist["F_LJ14"] # <<>>
          /\ plist_[pd.bond_ftype] # <<>>
          /\ plist_[pd.angle_ftype] # <<>>

\* The atom indices plist_to_mtop stored for the j-th term of a list
AtomsOf(top, ft, j) ==
    SubSeq(top.ilist[ft], (j - 1) * (1 + NRAL(ft)) + 2, j * (1 + NRAL(ft)))

\* The index array of every type has one handle and the atom indices per
\* term, in the order of the list
IlistsFollowLists(top) ==
    \A ft \in FTypes :
        /\ Len(top.ilist[ft]) = Len(plist_[ft]) * (1 + NRAL(ft))
        /\ \A j \in DOMAIN plist_[ft] :
              /\ AtomsOf(top, ft, j) = plist_[ft][j].a
              /\ HandleOf(top, ft, j) \in 0..(Len(top.ffparams) - 1)
              /\ top.ffparams[HandleOf(top, ft, j) + 1].ft = ft

\* C13 as stated: the index array of every type follows the list, and the
\* coefficients entered for a term are the term's coefficient array with
\* every NOTSET replaced by 0.
C13_IlistFollowsListAllSlots ==
    (pc = "return" /\ imm = "immOK" /\ ~mtop_.null) =>
        /\ IlistsFollowLists(mtop_.top)
        /\ \A ft \in FTypes : \A j \in DOMAIN plist_[ft] :
              mtop_.top.ffparams[HandleOf(mtop_.top, ft, j) + 1].c
                 = [l \in Coefs |-> IF plist_[ft][j].c[l] = NOTSET THEN 0
                                    ELSE plist_[ft][j].c[l]]

\* C13, amended: the index array of every type follows the list, and the
\* coefficients entered for a term are, in the slots below the type's number
\* of coefficients, the term's with every NOTSET replaced by 0 (for a 1-4
\* pair: fudgeLJ times the matrix entry of the two atoms' types), and 0 in
\* every slot from there on.
C13_IlistFollowsListTypeSlots ==
    (pc = "return" /\ imm = "immOK" /\ ~mtop_.null) =>
        LET top == mtop_.top
        IN /\ IlistsFollowLists(top)
           /\ \A ft \in FTypes : \A j \in DOMAIN plist_[ft] : \A l \in Coefs :
                 LET c == top.ffparams[HandleOf(top, ft, j) + 1].c
                     a == plist_[ft][j].a
                 IN IF l >= NRFPA(ft) THEN c[l] = 0
                    ELSE IF ft = "F_LJ14"
                    THEN c[l] = pd.fudgeLJ *
                                top.ffparams[top.atomtype[a[1]] * top.atnr
                                             + top.atomtype[a[2]] + 1].c[l]
                    ELSE IF plist_[ft][j].c[l] = NOTSET THEN c[l] = 0
                    ELSE c[l] = plist_[ft][j].c[l]

\* A topology was assembled from lists of several terms; the improper
\* carries a value behind the coefficients of its type, an angle has slots
\* not set
C13_Witness ==
    /\ pc = "return"
    /\ imm = "immOK"
    /\ ~mtop_.null
    /\ plist_["F_IDIHS"] # <<>>
    /\ plist_["F_IDIHS"][1].c[NRFPA("F_IDIHS")] > 0
    /\ Len(plist_["F_UREY_BRADLEY"]) >= 2
    /\ plist_["F_UREY_BRADLEY"][1].c[3] = NOTSET
    /\ Len(mtop_.top.ilist["F_UREY_BRADLEY"]) = 4 * Len(plist_["F_UREY_BRADLEY"])

\* C14: when the force field's van der Waals type is neither Lennard-Jones
\* nor Buckingham, generation ends in a fatal error and no topology is
\* assembled.
C14_UnsupportedVdwIsFatal ==
    pd.vdw_ftype \notin {"F_LJ", "F_BHAM"} =>
        /\ mtop_.null
        /\ ltop_ = "NULL"

\* The directive under which the terms of a type belong in the file
DirectiveOf(ft) ==
    CASE ft \in {"F_BONDS", "F_MORSE", "F_CONNBONDS"} -> "bonds"
      [] ft \in {"F_ANGLES", "F_LINEAR_ANGLES", "F_UREY_BRADLEY"} -> "angles"
      [] ft \in {"F_PDIHS", "F_FOURDIHS", "F_IDIHS"} -> "dihedrals"
      [] ft = "F_LJ14" -> "pairs"
      [] ft = "F_POLARIZATION" -> "polarization"
      [] OTHER -> "none"

\* C15: a file written with the charge groups set has, for every non-empty
\* list of bonded terms, a section under the list's directive with one row
\* per term, the atoms in the order of the list; so for the bond list under
\* the force field's bond type, whichever type that is.
C15_EveryListHasItsSection ==
    \A k \in DOMAIN hist :
        (hist[k].op = "print" /\ hist[k].cgnr) =>
            \A ft \in FTypes \ {"F_LJ"} :
                hist[k].plist[ft] # <<>> =>
                    \E s \in DOMAIN hist[k].out :
                        /\ hist[k].out[s].dir = DirectiveOf(ft)
                        /\ Len(hist[k].out[s].rows) = Len(hist[k].plist[ft])
                        /\ \A i \in DOMAIN hist[k].plist[ft] :
                              hist[k].out[s].rows[i].a
                                 = [j \in 1..NRAL(ft) |-> 1 + hist[k].plist[ft][i].a[j]]

\* The atom tuples in the lists, and how often a tuple is in them
TuplesOf(pl) == UNION {{pl[ft][j].a : j \in DOMAIN pl[ft]} : ft \in FTypes}

TupleCount(pl, t) ==
    SumSeq([i \in DOMAIN FTypeOrder |->
               Cardinality({j \in DOMAIN pl[FTypeOrder[i]] : pl[FTypeOrder[i]][j].a = t})])

\* The four kinds of mv_plists: the canonical type and the force field's
RemapKinds(p) ==
    {<<"F_BONDS", p.bond_ftype>>, <<"F_ANGLES", p.angle_ftype>>,
     <<"F_PDIHS", p.pdih_ftype>>, <<"F_IDIHS", p.idih_ftype>>}

\* C16: the forward remapping step loses and invents no interaction: every
\* atom tuple is in the lists as often after the step as before it, a moved
\* list arrives in its order, and a canonical list whose type differs from
\* its target is empty afterwards.
C16_RemapKeepsEveryTerm ==
    [][(pc = "remap" /\ pc' = "resolve") =>
          /\ \A t \in TuplesOf(plist_) \cup TuplesOf(plist_') :
                TupleCount(plist_', t) = TupleCount(plist_, t)
          /\ \A k \in RemapKinds(pd) :
                k[1] # k[2] =>
                    /\ [j \in DOMAIN plist_'[k[2]] |-> plist_'[k[2]][j].a]
                          = [j \in DOMAIN plist_[k[1]] |-> plist_[k[1]][j].a]
                    /\ plist_'[k[1]] = <<>>]_vars

\* C17: detect_rings marks an atom exactly when a search over simple paths
\* (no atom twice on a path) finds it on a cycle of 4 to 8 atoms; atoms that
\* are only on a ring of three and atoms hanging on a ring are not marked.
C17_MarkedIffOnSimpleCycle ==
    ring.pc = "done" =>
        \A j \in 0..ring.natom-1 : ring.bRing[j] <=> OnSimpleCycle(ring.bonds, j)

\* C18: an exclusion between two atoms that are not shells, present before
\* AddShells, is present after it under the new indices.
C18_RealExclusionsSurvive ==
    \A k \in DOMAIN hist :
        hist[k].op = "shells" =>
            LET b == hist[k].before
                rn == hist[k].renum
            IN \A i \in DOMAIN b.excls : \A e \in Range(b.excls[i]) :
                  (b.atoms[i].ptype # "eptShell" /\ b.atoms[e].ptype # "eptShell") =>
                      rn[e] \in Range(hist[k].excls[rn[i]])

\* The atoms that get a shell in the k-th operation
ShellParents(k) ==
    {i \in DOMAIN hist[k].before.atoms : Polarizable(pd, hist[k].before.atoms, i)}

\* C19: after AddShells every new shell excludes its parent and every atom
\* its parent excluded before, the parent excludes the shell, and the new
\* shells of two atoms that excluded each other exclude each other.
C19_ShellsInheritExclusions ==
    \A k \in DOMAIN hist :
        (hist[k].op = "shells" /\ hist[k].ns > 0) =>
            LET b == hist[k].before
                rn == hist[k].renum
                ex == hist[k].excls
            IN \A i \in ShellParents(k) :
                  /\ hist[k].atoms[rn[i] + 1].ptype = "eptShell"
                  /\ rn[i] \in Range(ex[rn[i] + 1])
                  /\ rn[i] + 1 \in Range(ex[rn[i]])
                  /\ \A e \in Range(b.excls[i]) :
                        /\ rn[e] \in Range(ex[rn[i] + 1])
                        /\ e \in ShellParents(k) =>
                              /\ rn[e] + 1 \in Range(ex[rn[i] + 1])
                              /\ rn[i] + 1 \in Range(ex[rn[e] + 1])

\* Two atoms that excluded each other both got a shell
C19_Witness ==
    \E k \in DOMAIN hist :
        /\ hist[k].op = "shells"
        /\ hist[k].ns >= 2
        /\ \E i \in ShellParents(k) : \E e \in Range(hist[k].before.excls[i]) :
              /\ e \in ShellParents(k)
              /\ hist[k].renum[e] + 1 \in Range(hist[k].excls[hist[k].renum[i] + 1])
              /\ Len(hist[k].before.excls[i]) >= 2

\* C20: the table of the k-th operation maps old atom i to i plus the number
\* of polarizable atoms before it, every new shell stands right behind its
\* parent, every term that was in a list before AddShells has its atoms
\* mapped through the table (the new polarization terms stand behind them),
\* and every atom index in the lists and in the exclusions is that of an
\* atom.
C20_RenumberedThroughOneTable ==
    \A k \in DOMAIN hist :
        hist[k].op = "shells" =>
            LET b == hist[k].before
                rn == hist[k].renum
                n == Cardinality(DOMAIN b.atoms)
                nnew == Cardinality(DOMAIN hist[k].atoms)
            IN /\ \A i \in 0..n-1 :
                     rn[i] = i + Cardinality({j \in 0..i-1 : j \in ShellParents(k)})
               /\ \A i, j \in 0..n-1 : i < j => rn[i] < rn[j]
               /\ nnew = n + hist[k].ns
               /\ \A i \in ShellParents(k) : hist[k].atoms[rn[i] + 1].ptype = "eptShell"
               /\ \A ft \in FTypes :
                     /\ Len(hist[k].plist[ft]) >= Len(b.plist[ft])
                     /\ \A j \in DOMAIN b.plist[ft] :
                           hist[k].plist[ft][j].a
                              = [m \in DOMAIN b.plist[ft][j].a |-> rn[b.plist[ft][j].a[m]]]
                     /\ \A j \in DOMAIN hist[k].plist[ft] :
                           Range(hist[k].plist[ft][j].a) \subseteq 0..nnew-1
               /\ \A i \in DOMAIN hist[k].excls :
                     Range(hist[k].excls[i]) \subseteq 0..nnew-1

\* C21: whenever AddShells has inserted shells, pruning the exclusion lists
\* it left once more changes no list: no list of an atom that is not a shell
\* holds an atom that is not a shell, and prune_excl returns the lists as
\* they are.
C21_PruneIsFixedPoint ==
    \A k \in DOMAIN hist :
        (hist[k].op = "shells" /\ hist[k].ns > 0) =>
            /\ prune_excl(hist[k].excls, hist[k].atoms) = hist[k].excls
            /\ \A i \in DOMAIN hist[k].excls :
                  hist[k].atoms[i].ptype # "eptShell" =>
                      \A e \in Range(hist[k].excls[i]) :
                          hist[k].atoms[e].ptype = "eptShell"

\* Shells were inserted into a molecule in which an atom excluded two atoms,
\* and lists with several entries are left
C21_Witness ==
    \E k \in DOMAIN hist :
        /\ hist[k].op = "shells"
        /\ hist[k].ns >= 2
        /\ \E i \in DOMAIN hist[k].before.excls : Len(hist[k].before.excls[i]) >= 2
        /\ \E i \in DOMAIN hist[k].excls :
              /\ hist[k].atoms[i].ptype # "eptShell"
              /\ Len(hist[k].excls[i]) >= 2

\* The stages of a call in the order of the code
StageOrder ==
    <<"atoms", "bonds", "angles", "special", "switches", "remap", "resolve", "assemble">>

\* The canonical bond list holds every bond of the molecule
BondsCanonical ==
    \A k \in DOMAIN mol.bonds :
        \E j \in DOMAIN plist_["F_BONDS"] :
            plist_["F_BONDS"][j].a[1] = mol.bonds[k][1] - 1 /\
            plist_["F_BONDS"][j].a[2] = mol.bonds[k][2] - 1

\* C22: in every call the stages that have run are a beginning of the order
\* atoms, bonds, angles, special, switches, remap, resolve, assemble; angle
\* generation starts only after the bonds were stored and with every bond of
\* the molecule in the list F_BONDS; and the remapping starts only after
\* generation, special interactions and switches.
C22_StagesInOrder ==
    /\ [](/\ Len(ran) <= Len(StageOrder)
          /\ ran = SubSeq(StageOrder, 1, Min(Len(ran), Len(StageOrder))))
    /\ [][(pc = "generate" /\ pc' = "special") =>
             (ran = <<"atoms", "bonds">> /\ BondsCanonical)]_vars
    /\ [][(pc = "remap" /\ pc' # "remap") =>
             ran = <<"atoms", "bonds", "angles", "special", "switches">>]_vars

\* A second call has run every stage with a force field whose bond type is
\* not the canonical one
C22_Witness ==
    /\ pc = "return"
    /\ pass = 2
    /\ ran = StageOrder
    /\ pd.bond_ftype = "F_MORSE"
    /\ plist_["F_ANGLES"] # <<>>

RECURSIVE NumbersIn(_, _)
NumbersIn(s, cur) ==
    IF s = <<>> THEN (IF cur = <<>> THEN <<>> ELSE <<cur>>)
    ELSE IF Head(s) = SP
         THEN (IF cur = <<>> THEN <<>> ELSE <<cur>>) \o NumbersIn(Tail(s), <<>>)
         ELSE NumbersIn(Tail(s), Append(cur, Head(s)))

\* C24: after a successful lookup slot 0 holds the base value and slot k the
\* k-th number of the parameter string, for k up to MAXFORCEPARAM-1; the
\* numbers behind the first MAXFORCEPARAM-1, the remaining slots and the
\* memory behind the array are as before.  Without a match nothing changes.
C24_TokensFillSlotsInOrder ==
    call.pc = "done" =>
        LET nums == NumbersIn(call.params, <<>>)
        IN IF call.found
           THEN /\ call.c[0] = call.xx
                /\ \A k \in 1..(MAXFORCEPARAM - 1) :
                      call.c[k] = IF k <= Len(nums) THEN atof(nums[k]) ELSE NOTSET
                /\ \A l \in DOMAIN call.c : l >= MAXFORCEPARAM => call.c[l] = NOTSET
           ELSE \A l \in DOMAIN call.c : call.c[l] = NOTSET

\* A string with more numbers than slots and an empty piece among them
C24_Witness ==
    /\ call.pc = "done"
    /\ call.found
    /\ Len(NumbersIn(call.params, <<>>)) > MAXFORCEPARAM
    /\ \E i \in 1..(Len(call.params) - 1) : call.params[i] = SP /\ call.params[i + 1] = SP
    /\ call.c[MAXFORCEPARAM - 1] = MAXFORCEPARAM - 1

KernelAllDone == \A t \in KernelThreads : kernel.th[t].pc = "done"

\* C25: no entry of the neighbour list is worked on twice, by the same or by
\* another thread, no index outside 0..nri-1 is worked on, and when every
\* thread has returned every index of 0..nri-1 has been worked on.
C25_EveryIndexExactlyOnce ==
    kernel.pc = "run" =>
        /\ \A n \in DOMAIN kernel.hits : kernel.hits[n] = 1 /\ n >= 0 /\ n < kernel.nri
        /\ KernelAllDone => DOMAIN kernel.hits = 0..(kernel.nri - 1)

\* Two threads have returned and each has worked on a part of the list
C25_Witness ==
    /\ kernel.pc = "run"
    /\ kernel.nthreads = 2
    /\ kernel.nri >= 5
    /\ KernelAllDone
    /\ \A t \in KernelThreads : kernel.own[t] >= 1
    /\ kernel.count > kernel.nri

\* C26: the count a thread reports is the number of entries it worked on and
\* is not negative, and the counts of all threads add up to nri.
C26_OuterIterationsCounted ==
    kernel.pc = "run" =>
        /\ \A t \in KernelThreads :
              kernel.th[t].pc = "done" =>
                  /\ kernel.th[t].outeriter = kernel.own[t]
                  /\ kernel.th[t].outeriter >= 0
        /\ KernelAllDone =>
              SumSeq([t \in 1..kernel.nthreads |-> kernel.th[t].outeriter]) = kernel.nri

\* C27: every selection stored in the option carries the option's flags, and
\* with efOnlyStatic among the flags none of them is dynamic, after every
\* call, those that threw included.
C27_StoredSelectionsCarryFlags ==
    storage.pc = "run" =>
        \A i \in DOMAIN storage.values :
            /\ storage.selFlags[storage.values[i]] = storage.flags
            /\ "efOnlyStatic" \in storage.flags => ~isDynamic(storage.values[i])

\* C28: an addSelections call that threw left the stored values, the values
\* of the current set and the flags of the passed selections as they were.
C28_AddSelectionsAllOrNothing ==
    (storage.pc = "run" /\ storage.op = "addSelections" /\ storage.thrown) =>
        /\ storage.values = storage.before[1].values
        /\ storage.setValues = storage.before[1].setValues
        /\ \A i \in DOMAIN storage.passed :
              storage.selFlags[storage.passed[i]] = storage.before[1].selFlags[storage.passed[i]]

\* C29: grref is never destroyed twice and never used or destroyed after its
\* destruction, and a call that made the copy has destroyed it once when it
\* ends.
C29_GrrefDestroyedOnce ==
    cube.pc # "off" =>
        /\ cube.destroys <= 1
        /\ cube.misuse = 0
        /\ (cube.pc \in {"done", "crashed"} /\ cube.gr_) => cube.destroys = 1

\* C30: when a call has assembled the topology, the entries of the
\* nonbonded matrix and one entry for every term of the lists are no more
\* than the size plist_to_mtop reserved, and the table itself is no longer
\* than that.
C30_TableWithinCapacity ==
    (pc = "return" /\ "assemble" \in Range(ran)) =>
        /\ mtop_.top.atnr * mtop_.top.atnr
              + SumSeq([i \in DOMAIN FTypeOrder |-> Len(plist_[FTypeOrder[i]])])
              <= mtop_.top.nalloc
        /\ Len(mtop_.top.ffparams) <= mtop_.top.nalloc

====
